---- MODULE Spec2Model ----
(***************************************************************************)
(* Model of src/server/db.js: the transaction log and snapshot (bundling)  *)
(* engine.  The durable tables (DynamoDB), the blob store (S3), the        *)
(* process-local Sequencer (memcache) and the Notifier (ws) are state.     *)
(* Handler code runs from one suspension point to the next in one action.  *)
(* A store call is two actions: the store handling the request (its name   *)
(* starts with Store), and, later, the reply reaching the handler that     *)
(* awaits it; any other action can happen in between.                      *)
(***************************************************************************)
EXTENDS Integers, Sequences, FiniteSets, TLC

VARIABLES
    databases,      \* Database table: dbId -> item (DOMAIN = existing ids)
    userDatabases,  \* UserDatabase table: <<userId, nameHash>> -> item
    transactions,   \* Log Store: <<dbId, seqNo>> -> item
    s3,             \* Snapshot Store: key -> stored bytes
    txLog,          \* Sequencer: dbId -> sequence of slot statuses
    mcBundleSeqNo,  \* Sequencer: dbId -> sequence of setBundleSeqNo arguments
    createCalls,    \* createDatabase calls awaiting transactWrite
    calls,          \* doCommand / batch calls, in the order they were made
    rollbackCalls,  \* exports.rollbackTransaction calls awaiting their put
    bundleCalls,    \* bundleTransactionLog calls, in the order they were made
    getCalls,       \* getBundle calls awaiting getObject
    lastDone        \* the most recent answer of a call that keeps no record

vars == <<databases, userDatabases, transactions, s3, txLog, mcBundleSeqNo,
          createCalls, calls, rollbackCalls, bundleCalls, getCalls, lastDone>>

registryVars == <<databases, userDatabases, createCalls>>
logVars == <<transactions, txLog, calls, rollbackCalls>>
bundleVars == <<s3, mcBundleSeqNo, bundleCalls, getCalls>>

(***************************************************************************)
(* Bounds of the model.                                                    *)
(***************************************************************************)
MaxCalls == 2          \* doCommand / batch calls made in one behaviour
MaxBundleCalls == 2    \* bundleTransactionLog calls made in one behaviour
MaxCreateCalls == 2    \* createDatabase calls awaiting the store at one time
MaxRollbackCalls == 1  \* exports.rollbackTransaction calls awaiting the store
MaxGetCalls == 1       \* getBundle calls awaiting the store at one time

(***************************************************************************)
(* Input values.  Absent stands for a missing (falsy) argument.            *)
(***************************************************************************)
Absent == "absent"

\* statusCodes, by name (responseBuilder.errorResponse / successResponse)
Success == "success"
BadRequest == "bad-request"
NotFound == "not-found"
Conflict == "conflict"
InternalError == "internal-error"
\* the promise of the call rejects: no response is built
Rejected == "rejected"

(***************************************************************************)
(* A store call.  The request is handled with one of three outcomes:       *)
(*   "ok"         the store evaluates the request and its reply arrives;   *)
(*   "error"      the call fails and the store changes nothing;            *)
(*   "lost-reply" the store evaluates the request but the call fails (the  *)
(*                case rollbackTransaction reconciles, line 164).          *)
(* The reply the awaiting handler gets is "ok", "conditional" (the         *)
(* ConditionExpression was false) or "error"; NoReply while the request    *)
(* is still on its way.                                                    *)
(***************************************************************************)
NoReply == "none"
Outcomes == {"ok", "error", "lost-reply"}
ReadOutcomes == {"ok", "error"}

\* does the store apply a guarded write whose condition evaluates as given
applied(outcome, condition) == outcome # "error" /\ condition

replyOf(outcome, condition) ==
    IF outcome # "ok" THEN "error"
    ELSE IF condition THEN "ok"
    ELSE "conditional"

\* seq without its i-th element
remove(seq, i) == SubSeq(seq, 1, i - 1) \o SubSeq(seq, i + 1, Len(seq))

(***************************************************************************)
(* Sequencer (memcache).  Its code is not part of src/; it is modelled     *)
(* from the collaborator contract: initLog, assignNext, markPersisted,     *)
(* markRolledBack.  The log of a database is the sequence of the statuses  *)
(* of its slots; slot k is sequence number k, the first being 1.  The      *)
(* Sequencer has a log, and so a next number, only for a database initLog  *)
(* was called for; assignNext for any other database fails.                *)
(***************************************************************************)
initTransactionLog(log, dbId) ==
    [d \in (DOMAIN log) \cup {dbId} |-> IF d = dbId THEN <<>> ELSE log[d]]

\* assignNext: claims the next sequence number and marks it assigned
pushTransaction(log, dbId) ==
    [log EXCEPT ![dbId] = Append(@, "assigned")]

assignedSequenceNo(log, dbId) == Len(log[dbId]) + 1

\* the slots the Sequencer has a status for: the numbers it handed out
assignedSlot(log, dbId, seqNo) ==
    dbId \in DOMAIN log /\ seqNo \in 1..Len(log[dbId])

\* markPersisted, markRolledBack: a status is that of a number that was
\* handed out; for any other slot there is none to change
transactionPersistedToDdb(log, dbId, seqNo) ==
    IF assignedSlot(log, dbId, seqNo) THEN [log EXCEPT ![dbId][seqNo] = "persisted"]
    ELSE log

transactionRolledBack(log, dbId, seqNo) ==
    IF assignedSlot(log, dbId, seqNo) THEN [log EXCEPT ![dbId][seqNo] = "rolled-back"]
    ELSE log

(***************************************************************************)
(* Items of the Log Store.                                                 *)
(***************************************************************************)
NoOps == <<>>

\* doCommand's transaction object (lines 211-216)
singleTransaction(command, key, record) ==
    [command |-> command, key |-> key, record |-> record, operations |-> NoOps]

\* batch's transaction object (lines 251-257)
batchTransaction(ops) ==
    [command |-> "Batch", key |-> Absent, record |-> Absent, operations |-> ops]

\* rollbackTransaction's marker (lines 135-140): database-id, sequence-no,
\* item-id and command only; key, record and operations are not copied
transactionWithRollbackCommand ==
    [command |-> "rollback", key |-> Absent, record |-> Absent, operations |-> NoOps]

\* ConditionExpression of putTransaction (line 182)
putCondition(table, slot) == slot \notin DOMAIN table

\* mutant: the rollback put carries no ConditionExpression
rollbackConditionNone(table, slot) == TRUE

\* ConditionExpression of rollbackTransaction (line 148)
rollbackCondition(table, slot) ==
    slot \notin DOMAIN table \/ table[slot].command = "rollback"

\* a DynamoDB put of item at slot
putItem(table, slot, item) ==
    [k \in (DOMAIN table) \cup {slot} |-> IF k = slot THEN item ELSE table[k]]

(***************************************************************************)
(* Natural numbers of any size, for the conversions below: a sequence of   *)
(* limbs in base 1000, least significant first, without a leading zero     *)
(* limb (zero is the empty sequence).                                      *)
(***************************************************************************)
Base == 1000

Max(a, b) == IF a > b THEN a ELSE b
Min(a, b) == IF a < b THEN a ELSE b

limb(a, k) == IF k \in 1..Len(a) THEN a[k] ELSE 0

\* the highest position of lo..hi holding a limb other than 0, 0 when none does
RECURSIVE topLimb(_, _, _)
topLimb(a, lo, hi) ==
    IF lo > hi THEN 0
    ELSE IF lo = hi THEN (IF a[lo] # 0 THEN lo ELSE 0)
    ELSE IF topLimb(a, ((lo + hi) \div 2) + 1, hi) # 0
    THEN topLimb(a, ((lo + hi) \div 2) + 1, hi)
    ELSE topLimb(a, lo, (lo + hi) \div 2)

trim(a) == SubSeq(a, 1, topLimb(a, 1, Len(a)))

\* one pass of carrying: every column keeps its low limb and hands the rest up
carries(v) ==
    [k \in 1..(Len(v) + 1) |-> (limb(v, k) % Base) + (limb(v, k - 1) \div Base)]

\* the carry into column k of columns that each hold less than 2 * Base - 1
carryInto(w, k) ==
    \E j \in 1..(k - 1) : w[j] >= Base /\ \A l \in (j + 1)..(k - 1) : w[l] = Base - 1

resolve(w) ==
    trim([k \in 1..(Len(w) + 1) |->
            (limb(w, k) + (IF carryInto(w, k) THEN 1 ELSE 0)) % Base])

\* the number whose columns are v (each column a natural below 2^31)
normalize(v) == resolve(carries(carries(carries(v))))

natural(n) == normalize(<<n>>)

plus(a, b) == resolve([k \in 1..Max(Len(a), Len(b)) |-> limb(a, k) + limb(b, k)])

\* a - b for a >= b
borrowInto(a, b, k) ==
    \E j \in 1..(k - 1) :
        /\ limb(a, j) < limb(b, j)
        /\ \A l \in (j + 1)..(k - 1) : limb(a, l) = limb(b, l)

minus(a, b) ==
    trim([k \in 1..Len(a) |->
            (a[k] - limb(b, k) - (IF borrowInto(a, b, k) THEN 1 ELSE 0) + Base) % Base])

less(a, b) ==
    \/ Len(a) < Len(b)
    \/ /\ Len(a) = Len(b)
       /\ \E k \in 1..Len(a) :
             a[k] < b[k] /\ \A l \in (k + 1)..Len(a) : a[l] = b[l]

RECURSIVE sumProducts(_, _, _, _, _)
sumProducts(a, b, k, lo, hi) ==
    IF lo > hi THEN 0
    ELSE IF lo = hi THEN a[lo] * b[k - lo + 1]
    ELSE sumProducts(a, b, k, lo, (lo + hi) \div 2)
         + sumProducts(a, b, k, ((lo + hi) \div 2) + 1, hi)

times(a, b) ==
    IF Len(a) = 0 \/ Len(b) = 0 THEN <<>>
    ELSE normalize([k \in 1..(Len(a) + Len(b) - 1) |->
            sumProducts(a, b, k, Max(1, k - Len(b) + 1), Min(k, Len(a)))])

\* a * d for a natural d below 2 * 10^6
timesSmall(a, d) ==
    IF Len(a) = 0 THEN <<>> ELSE normalize([k \in 1..Len(a) |-> a[k] * d])

shiftLimbs(a, n) == IF Len(a) = 0 THEN <<>> ELSE [k \in 1..n |-> 0] \o a

pow10(k) == shiftLimbs(<<10 ^ (k % 3)>>, k \div 3)

square(a) == times(a, a)

RECURSIVE pow2(_)
pow2(k) ==
    IF k < 10 THEN <<2 ^ k>>
    ELSE timesSmall(square(pow2(k \div 2)), 2 ^ (k % 2))

isOdd(a) == Len(a) > 0 /\ a[1] % 2 = 1

\* the largest d of lo..hi with d * den <= rem
RECURSIVE quotientLimb(_, _, _, _)
quotientLimb(rem, den, lo, hi) ==
    IF lo = hi THEN lo
    ELSE IF less(rem, timesSmall(den, (lo + hi + 1) \div 2))
    THEN quotientLimb(rem, den, lo, ((lo + hi + 1) \div 2) - 1)
    ELSE quotientLimb(rem, den, (lo + hi + 1) \div 2, hi)

\* quotient and remainder, limb by limb from position p down
RECURSIVE divideFrom(_, _, _)
divideFrom(rem, den, p) ==
    IF p < 0 THEN [q |-> <<>>, r |-> rem]
    ELSE LET d == quotientLimb(rem, shiftLimbs(den, p), 0, Base - 1)
             rest == divideFrom(minus(rem, timesSmall(shiftLimbs(den, p), d)), den, p - 1)
         IN  [q |-> Append(rest.q, d), r |-> rest.r]

trimmedQuotient(qr) == [q |-> trim(qr.q), r |-> qr.r]

divide(num, den) == trimmedQuotient(divideFrom(num, den, Len(num) - Len(den)))

\* the count of decimal digits of a (0 for zero)
decimalLength(a) ==
    IF Len(a) = 0 THEN 0
    ELSE 3 * (Len(a) - 1)
         + (IF a[Len(a)] < 10 THEN 1 ELSE IF a[Len(a)] < 100 THEN 2 ELSE 3)

\* the decimal digits of a, most significant first (none for zero)
digitsOfLength(a, n) ==
    [i \in 1..n |-> (a[((n - i) \div 3) + 1] \div (10 ^ ((n - i) % 3))) % 10]

decimalDigits(a) == digitsOfLength(a, decimalLength(a))

\* the natural with the given decimal digits, most significant first
fromDigits(ds) ==
    trim([k \in 1..((Len(ds) + 2) \div 3) |->
            (IF Len(ds) - 3 * (k - 1) >= 1 THEN ds[Len(ds) - 3 * (k - 1)] ELSE 0)
            + 10 * (IF Len(ds) - 3 * (k - 1) - 1 >= 1 THEN ds[Len(ds) - 3 * (k - 1) - 1] ELSE 0)
            + 100 * (IF Len(ds) - 3 * (k - 1) - 2 >= 1 THEN ds[Len(ds) - 3 * (k - 1) - 2] ELSE 0)])

\* an integer of any size: its sign and its magnitude (0 is not negative)
Signed(neg, mag) == [neg |-> neg /\ Len(mag) > 0, mag |-> mag]

\* the integer n
signedOf(n) == Signed(n < 0, natural(IF n < 0 THEN 0 - n ELSE n))

signedSum(a, b) ==
    IF a.neg = b.neg THEN Signed(a.neg, plus(a.mag, b.mag))
    ELSE IF less(a.mag, b.mag) THEN Signed(b.neg, minus(b.mag, a.mag))
    ELSE Signed(a.neg, minus(a.mag, b.mag))

signedLess(a, b) ==
    IF a.neg # b.neg THEN a.neg
    ELSE IF a.neg THEN less(b.mag, a.mag)
    ELSE less(a.mag, b.mag)

withSign(neg, n) == IF neg THEN 0 - n ELSE n

\* the integer a, for a magnitude below 10^9
signedValue(a) ==
    withSign(a.neg, limb(a.mag, 1) + Base * limb(a.mag, 2) + Base * Base * limb(a.mag, 3))

(***************************************************************************)
(* JavaScript values and their conversions.  A value is undefined, null,   *)
(* a boolean, a number, a bigint, a string (a sequence of UTF-16 code      *)
(* units), a symbol, or an object, which is known by what its valueOf and  *)
(* toString methods return (prim).  A number is NaN, an infinity, or the   *)
(* double with the decimal digits `digits` (most significant first, no     *)
(* zero at either end, none for 0) and the decimal exponent `exp`: its     *)
(* magnitude is 0.d1d2...dk * 10^exp, the shortest decimal that reads back *)
(* as the same double, which is how Number::toString knows a number.  -0   *)
(* is the number without digits whose neg is TRUE.                         *)
(***************************************************************************)
JSValue(t, nan, inf, neg, digits, exp, chars, prim) ==
    [t |-> t, nan |-> nan, inf |-> inf, neg |-> neg, digits |-> digits, exp |-> exp,
     chars |-> chars, prim |-> prim]

Undefined == JSValue("undefined", FALSE, FALSE, FALSE, <<>>, 0, <<>>, <<>>)
Null == JSValue("null", FALSE, FALSE, FALSE, <<>>, 0, <<>>, <<>>)
NaN == JSValue("number", TRUE, FALSE, FALSE, <<>>, 0, <<>>, <<>>)
Infinity(neg) == JSValue("number", FALSE, TRUE, neg, <<>>, 0, <<>>, <<>>)
Str(chars) == JSValue("string", FALSE, FALSE, FALSE, <<>>, 0, chars, <<>>)
Symbol == JSValue("symbol", FALSE, FALSE, FALSE, <<>>, 0, <<>>, <<>>)

\* what a method call or a conversion gives when it throws
Throw == JSValue("throw", FALSE, FALSE, FALSE, <<>>, 0, <<>>, <<>>)
\* what a method gives when it returns something that is not a primitive
NotPrimitive == JSValue("object", FALSE, FALSE, FALSE, <<>>, 0, <<>>, <<>>)
\* an object whose valueOf() and toString() give the two values
Obj(valueOf, toStr) == JSValue("object", FALSE, FALSE, FALSE, <<>>, 0, <<>>, <<valueOf, toStr>>)

\* the first and last positions of ds holding a digit other than 0
firstNonZero(ds) == CHOOSE i \in 1..Len(ds) : ds[i] # 0 /\ \A j \in 1..(i - 1) : ds[j] = 0
lastNonZero(ds) == CHOOSE i \in 1..Len(ds) : ds[i] # 0 /\ \A j \in (i + 1)..Len(ds) : ds[j] = 0
allZero(ds) == \A i \in 1..Len(ds) : ds[i] = 0

\* significant digits and decimal exponent of 0.ds * 10^point
significant(ds) == IF allZero(ds) THEN <<>> ELSE SubSeq(ds, firstNonZero(ds), lastNonZero(ds))
exponentOf(ds, point) == IF allZero(ds) THEN 0 ELSE point - (firstNonZero(ds) - 1)

\* the number 0.ds * 10^point, for digits and a point that name a double
Decimal(neg, ds, point) ==
    JSValue("number", FALSE, FALSE, neg, significant(ds), exponentOf(ds, point),
            <<>>, <<>>)

RECURSIVE naturalDigits(_)
naturalDigits(n) == IF n < 10 THEN <<n>> ELSE Append(naturalDigits(n \div 10), n % 10)

Num(n) ==
    Decimal(n < 0, naturalDigits(IF n < 0 THEN 0 - n ELSE n),
            Len(naturalDigits(IF n < 0 THEN 0 - n ELSE n)))

Boolean(b) ==
    JSValue("boolean", FALSE, FALSE, FALSE, IF b THEN <<1>> ELSE <<>>, IF b THEN 1 ELSE 0,
            <<>>, <<>>)

\* the bigint with the given decimal digits
BigInt(neg, ds) ==
    JSValue("bigint", FALSE, FALSE, neg /\ ~allZero(ds), significant(ds),
            exponentOf(ds, Len(ds)), <<>>, <<>>)

(***************************************************************************)
(* The double nearest to a rational N / D (ties to the even mantissa): a   *)
(* mantissa m below 2^53 and a binary exponent e with the value m * 2^e.   *)
(***************************************************************************)
MinExponent == -1074
MaxExponent == 971

scaledNumerator(N, e) == IF e < 0 THEN times(N, pow2(0 - e)) ELSE N
scaledDenominator(D, e) == IF e > 0 THEN times(D, pow2(e)) ELSE D

\* the exponent at which the quotient lies in 2^52 .. 2^53 (or at the least
\* exponent, below 2^53), found from an estimate
RECURSIVE binaryExponent(_, _, _)
\* num / den is N / D over 2^e
exponentStep(N, D, e, num, den) ==
    IF ~less(num, times(den, pow2(53))) THEN binaryExponent(N, D, e + 1)
    ELSE IF e > MinExponent /\ less(num, times(den, pow2(52)))
    THEN binaryExponent(N, D, e - 1)
    ELSE e

binaryExponent(N, D, e) ==
    IF e > MaxExponent THEN e
    ELSE exponentStep(N, D, e, scaledNumerator(N, e), scaledDenominator(D, e))

\* q, and q + 1 when the remainder is more than half of den, or is half of
\* it and q is odd (twice is the remainder doubled)
roundHalfEven(q, twice, den) ==
    IF less(den, twice) \/ (twice = den /\ isOdd(q)) THEN plus(q, <<1>>) ELSE q

roundedQuotient(qr, den) == roundHalfEven(qr.q, plus(qr.r, qr.r), den)

roundedRatio(num, den) == roundedQuotient(divide(num, den), den)

roundedMantissa(N, D, e) ==
    roundedRatio(scaledNumerator(N, e), scaledDenominator(D, e))

\* [zero, inf, m, e]
Double(zero, inf, m, e) == [zero |-> zero, inf |-> inf, m |-> m, e |-> e]

\* the double of the rounded mantissa m (2^53 at most) at the exponent e
doubleOf(m, e) ==
    IF Len(m) = 0 THEN Double(TRUE, FALSE, <<>>, 0)
    ELSE IF m = pow2(53)
    THEN (IF e = MaxExponent THEN Double(FALSE, TRUE, <<>>, 0)
          ELSE Double(FALSE, FALSE, pow2(52), e + 1))
    ELSE Double(FALSE, FALSE, m, e)

doubleAt(N, D, e) ==
    IF e > MaxExponent THEN Double(FALSE, TRUE, <<>>, 0)
    ELSE doubleOf(roundedMantissa(N, D, e), e)

nearestDouble(N, D, estimate) ==
    doubleAt(N, D, binaryExponent(N, D, Max(estimate, MinExponent)))

(***************************************************************************)
(* The shortest decimal that reads back as the double m * 2^e, the nearest *)
(* to the double among the shortest (Number::toString's n, k and s).  The  *)
(* double is A / B and a unit of its last place U / B; every decimal       *)
(* between low / 4B and high / 4B reads back as it, the ends included when *)
(* m is even.                                                              *)
(***************************************************************************)
\* n with 10^(n-1) <= A / B < 10^n, from a guess that is n or n - 1
decimalPoint(A, B, guess) ==
    IF less(times(A, pow10(Max(0 - guess, 0))), times(B, pow10(Max(guess, 0))))
    THEN guess ELSE guess + 1

contextWith(m, e, A, B, U, A4, n) ==
    [A4 |-> A4, B4 |-> timesSmall(B, 4),
     high |-> plus(A4, timesSmall(U, 2)),
     low |-> IF m = pow2(52) /\ e > MinExponent
             THEN minus(A4, U)
             ELSE minus(A4, timesSmall(U, 2)),
     closed |-> ~isOdd(m),
     n |-> n,
     s17 |-> divide(times(A, pow10(Max(17 - n, 0))), times(B, pow10(Max(n - 17, 0)))).q]

contextOf(m, e, A, B, U) ==
    contextWith(m, e, A, B, U, timesSmall(A, 4),
                decimalPoint(A, B, decimalLength(A) - decimalLength(B)))

decimalContext(m, e) ==
    contextOf(m, e,
              IF e > 0 THEN times(m, pow2(e)) ELSE m,
              IF e < 0 THEN pow2(0 - e) ELSE <<1>>,
              IF e > 0 THEN pow2(e) ELSE <<1>>)

\* s * 10^p against y / B4, both sides brought to naturals
candidateSide(c, s, p) == times(times(s, pow10(Max(p, 0))), c.B4)
boundSide(y, p) == times(y, pow10(Max(0 - p, 0)))

\* x lies between low and high
between(closed, x, low, high) ==
    IF closed THEN ~less(x, low) /\ ~less(high, x)
    ELSE less(low, x) /\ less(x, high)

readsBack(c, s, p) ==
    between(c.closed, candidateSide(c, s, p), boundSide(c.low, p), boundSide(c.high, p))

\* of s and s + 1 (both reading back), the one nearer to the double, the even
\* one when they are as near: middle is s + 1/2
nearerOf(s, middle, double) ==
    IF less(double, middle) THEN s
    ELSE IF less(middle, double) THEN plus(s, <<1>>)
    ELSE IF isOdd(s) THEN plus(s, <<1>>) ELSE s

nearer(c, s, p) ==
    nearerOf(s, candidateSide(c, plus(timesSmall(s, 2), <<1>>), p),
             boundSide(timesSmall(c.A4, 2), p))

RECURSIVE shortestFrom(_, _)
\* lower: s reads back; upper: s + 1 reads back
shortestOf(c, k, s, p, lower, upper) ==
    IF lower /\ upper THEN [s |-> nearer(c, s, p), p |-> p]
    ELSE IF lower THEN [s |-> s, p |-> p]
    ELSE IF upper THEN [s |-> plus(s, <<1>>), p |-> p]
    ELSE shortestFrom(c, k + 1)

shortestAt(c, k, s, p) ==
    shortestOf(c, k, s, p, readsBack(c, s, p), readsBack(c, plus(s, <<1>>), p))

\* the decimals of k digits, then of k + 1, and so on
shortestFrom(c, k) == shortestAt(c, k, divide(c.s17, pow10(17 - k)).q, c.n - k)

shortestNumber(neg, found) ==
    Decimal(neg, decimalDigits(found.s), found.p + decimalLength(found.s))

\* the number that is the double m * 2^e
doubleValue(neg, m, e) == shortestNumber(neg, shortestFrom(decimalContext(m, e), 1))

\* the number nearest to 0.ds * 10^point: the decimal itself when it has at
\* most 15 significant digits and lies well inside the normal doubles (every
\* such decimal is the shortest that reads back as its nearest double)
MaxExactDigits == 15
MaxExactExponent == 300

numberOfDouble(neg, found) ==
    IF found.inf THEN Infinity(neg)
    ELSE IF found.zero THEN Decimal(neg, <<>>, 0)
    ELSE doubleValue(neg, found.m, found.e)

\* sig: the significant digits, n: their decimal exponent
roundSignificant(neg, sig, n) ==
    IF Len(sig) = 0 THEN Decimal(neg, <<>>, 0)
    ELSE IF Len(sig) <= MaxExactDigits /\ n >= 0 - MaxExactExponent /\ n <= MaxExactExponent
    THEN Decimal(neg, sig, n)
    ELSE IF n > 309 THEN Infinity(neg)
    ELSE IF n < -324 THEN Decimal(neg, <<>>, 0)
    ELSE numberOfDouble(neg,
            nearestDouble(times(fromDigits(sig), pow10(Max(n - Len(sig), 0))),
                          pow10(Max(Len(sig) - n, 0)),
                          (((n - 1) * 3322) \div 1000) - 53))

\* the same for a decimal exponent n of any size: a decimal at 10^309 or
\* above is beyond every double, one below 10^-324 is nearest to 0
roundExponent(neg, sig, n) ==
    IF signedLess(signedOf(309), n) THEN Infinity(neg)
    ELSE IF signedLess(n, signedOf(-324)) THEN Decimal(neg, <<>>, 0)
    ELSE roundSignificant(neg, sig, signedValue(n))

\* the number nearest to 0.ds * 10^point, point an integer of any size
roundToDouble(neg, ds, point) ==
    IF allZero(ds) THEN Decimal(neg, <<>>, 0)
    ELSE roundExponent(neg, significant(ds),
                       signedSum(point, signedOf(1 - firstNonZero(ds))))

(***************************************************************************)
(* StringToNumber: the text with the StrWhiteSpaceChar code units around   *)
(* it removed is empty (0), a StrNumericLiteral, or not a number (NaN).    *)
(***************************************************************************)
\* TAB, LF, VT, FF, CR, SP, NBSP, U+1680, U+2000..U+200A, LS, PS, U+202F,
\* U+205F, U+3000, ZWNBSP
WhiteSpace ==
    {9, 10, 11, 12, 13, 32, 160, 5760} \cup (8192..8202)
    \cup {8232, 8233, 8239, 8287, 12288, 65279}

trimmed(chars) ==
    IF \A i \in 1..Len(chars) : chars[i] \in WhiteSpace THEN <<>>
    ELSE SubSeq(chars,
                CHOOSE i \in 1..Len(chars) :
                    chars[i] \notin WhiteSpace /\ \A j \in 1..(i - 1) : chars[j] \in WhiteSpace,
                CHOOSE i \in 1..Len(chars) :
                    chars[i] \notin WhiteSpace
                    /\ \A j \in (i + 1)..Len(chars) : chars[j] \in WhiteSpace)

isDigit(ch) == ch \in 48..57
digitValue(ch) == ch - 48
allDigits(chars) == \A i \in 1..Len(chars) : isDigit(chars[i])
digitValues(chars) == [i \in 1..Len(chars) |-> digitValue(chars[i])]

\* the first position of chars holding a member of set, 0 when there is none
firstIndex(chars, set) ==
    IF \E i \in 1..Len(chars) : chars[i] \in set
    THEN CHOOSE i \in 1..Len(chars) :
            chars[i] \in set /\ \A j \in 1..(i - 1) : chars[j] \notin set
    ELSE 0

\* 0x / 0o / 0b literals: no sign, at least one digit of the base
radixBase(ch) ==
    IF ch \in {120, 88} THEN 16
    ELSE IF ch \in {111, 79} THEN 8
    ELSE IF ch \in {98, 66} THEN 2
    ELSE 0

radixDigitValue(ch) ==
    IF ch \in 48..57 THEN ch - 48
    ELSE IF ch \in 97..102 THEN ch - 87
    ELSE IF ch \in 65..70 THEN ch - 55
    ELSE 16

isRadixLiteral(chars) ==
    /\ Len(chars) >= 3 /\ chars[1] = 48 /\ radixBase(chars[2]) > 0
    /\ \A i \in 3..Len(chars) : radixDigitValue(chars[i]) < radixBase(chars[2])

RECURSIVE powSmall(_, _)
powSmall(base, k) ==
    IF k = 0 THEN <<1>>
    ELSE IF k % 2 = 1
    THEN timesSmall(times(powSmall(base, k \div 2), powSmall(base, k \div 2)), base)
    ELSE times(powSmall(base, k \div 2), powSmall(base, k \div 2))

RECURSIVE radixValue(_, _, _, _)
radixValue(chars, base, lo, hi) ==
    IF lo = hi THEN natural(radixDigitValue(chars[lo]))
    ELSE plus(times(radixValue(chars, base, lo, (lo + hi) \div 2),
                    powSmall(base, hi - ((lo + hi) \div 2))),
              radixValue(chars, base, ((lo + hi) \div 2) + 1, hi))

\* the parts of an unsigned decimal literal: digits [. digits] [e [+-] digits]
ExponentMark == {101, 69}
Point == {46}
Signs == {43, 45}

mantissa(chars) ==
    IF firstIndex(chars, ExponentMark) = 0 THEN chars
    ELSE SubSeq(chars, 1, firstIndex(chars, ExponentMark) - 1)

exponentPart(chars) ==
    IF firstIndex(chars, ExponentMark) = 0 THEN <<>>
    ELSE SubSeq(chars, firstIndex(chars, ExponentMark) + 1, Len(chars))

exponentDigits(chars) ==
    IF Len(exponentPart(chars)) > 0 /\ exponentPart(chars)[1] \in Signs
    THEN Tail(exponentPart(chars))
    ELSE exponentPart(chars)

\* the value of the exponent digits, a natural of any size
exponentMagnitude(chars) == fromDigits(digitValues(exponentDigits(chars)))

\* the exponent of the literal, 0 when it has none
exponentValue(chars) ==
    IF firstIndex(chars, ExponentMark) = 0 THEN Signed(FALSE, <<>>)
    ELSE Signed(exponentPart(chars)[1] = 45, exponentMagnitude(chars))

integerDigits(chars) ==
    IF firstIndex(mantissa(chars), Point) = 0 THEN mantissa(chars)
    ELSE SubSeq(mantissa(chars), 1, firstIndex(mantissa(chars), Point) - 1)

fractionDigits(chars) ==
    IF firstIndex(mantissa(chars), Point) = 0 THEN <<>>
    ELSE SubSeq(mantissa(chars), firstIndex(mantissa(chars), Point) + 1,
                Len(mantissa(chars)))

\* the parts of a StrUnsignedDecimalLiteral: digits on one side of the point
\* at least, and digits in the exponent when there is one
wellFormed(integer, fraction, noExponent, exponent) ==
    /\ allDigits(integer) /\ allDigits(fraction)
    /\ Len(integer) + Len(fraction) > 0
    /\ noExponent \/ (Len(exponent) > 0 /\ allDigits(exponent))

isDecimalLiteral(chars) ==
    wellFormed(integerDigits(chars), fractionDigits(chars),
               firstIndex(chars, ExponentMark) = 0, exponentDigits(chars))

(***************************************************************************)
(* What a numeric text denotes before it is rounded to a double: not a     *)
(* number, an infinity, or the digits ds with the decimal point after the  *)
(* first `point` of them; point is an integer of any size, since the       *)
(* exponent of a literal is.                                               *)
(***************************************************************************)
Literal(kind, neg, ds, point) == [kind |-> kind, neg |-> neg, ds |-> ds, point |-> point]

integerLiteral(neg, ds) == Literal("finite", neg, ds, signedOf(Len(ds)))

\* the digits of the mantissa with the point moved by the exponent
decimalParts(neg, integer, fraction, exponent) ==
    Literal("finite", neg, digitValues(integer \o fraction),
            signedSum(signedOf(Len(integer)), exponent))

decimalLiteral(neg, chars) ==
    decimalParts(neg, integerDigits(chars), fractionDigits(chars), exponentValue(chars))

InfinityChars == <<73, 110, 102, 105, 110, 105, 116, 121>>

\* a StrDecimalLiteral without its sign
signedLiteral(neg, body) ==
    IF body = InfinityChars THEN Literal("infinite", neg, <<>>, signedOf(0))
    ELSE IF isDecimalLiteral(body) THEN decimalLiteral(neg, body)
    ELSE Literal("nan", FALSE, <<>>, signedOf(0))

\* a trimmed string: empty (0), a 0x / 0o / 0b literal, or a signed decimal
stringLiteral(chars) ==
    IF Len(chars) = 0 THEN Literal("finite", FALSE, <<>>, signedOf(0))
    ELSE IF isRadixLiteral(chars)
    THEN integerLiteral(FALSE,
            decimalDigits(radixValue(chars, radixBase(chars[2]), 3, Len(chars))))
    ELSE signedLiteral(chars[1] = 45, IF chars[1] \in Signs THEN Tail(chars) ELSE chars)

literalValue(l) ==
    IF l.kind = "nan" THEN NaN
    ELSE IF l.kind = "infinite" THEN Infinity(l.neg)
    ELSE roundToDouble(l.neg, l.ds, l.point)

stringToNumber(chars) == stringLiteral(trimmed(chars))

\* ToPrimitive of an object: valueOf() then toString() for the hint number,
\* the other way round for the hint string; the first result that is a
\* primitive, and a TypeError when neither is
ToPrimitive(x, hint) ==
    LET first == IF hint = "number" THEN x.prim[1] ELSE x.prim[2]
        second == IF hint = "number" THEN x.prim[2] ELSE x.prim[1]
    IN  IF x.t # "object" THEN x
        ELSE IF first.t # "object" THEN first
        ELSE IF second.t # "object" THEN second
        ELSE Throw

\* Number(x) (line 267): undefined -> NaN, null -> 0, true -> 1, false -> 0,
\* a number -> itself, a bigint -> the nearest double, a string -> the value
\* of its text, an object -> the number of its primitive; a symbol throws
toNumber(x) ==
    IF x.t = "undefined" THEN NaN
    ELSE IF x.t = "null" THEN Num(0)
    ELSE IF x.t = "boolean" THEN Decimal(FALSE, x.digits, x.exp)
    ELSE IF x.t = "number" THEN x
    ELSE IF x.t \in {"bigint", "string"}
    THEN literalValue(IF x.t = "bigint" THEN Literal("finite", x.neg, x.digits, signedOf(x.exp))
                      ELSE stringToNumber(x.chars))
    ELSE Throw

Number(x) == toNumber(ToPrimitive(x, "number"))

\* a < b for the magnitudes of two finite numbers
magnitudeLess(a, b) ==
    IF Len(b.digits) = 0 THEN FALSE
    ELSE IF Len(a.digits) = 0 THEN TRUE
    ELSE IF a.exp # b.exp THEN a.exp < b.exp
    ELSE \E i \in 1..Len(b.digits) :
            /\ \A j \in 1..(i - 1) : j <= Len(a.digits) /\ a.digits[j] = b.digits[j]
            /\ (i > Len(a.digits) \/ a.digits[i] < b.digits[i])

\* 0 or -0
isZero(x) == ~x.inf /\ Len(x.digits) = 0

\* a < b for two numbers that are not NaN; -0 is not less than 0
numberLess(a, b) ==
    IF a = b \/ (isZero(a) /\ isZero(b)) THEN FALSE
    ELSE IF a.inf THEN a.neg
    ELSE IF b.inf THEN ~b.neg
    ELSE IF a.neg # b.neg THEN a.neg
    ELSE IF a.neg THEN magnitudeLess(b, a)
    ELSE magnitudeLess(a, b)

\* !x && x !== 0 (lines 269, 322): the values that are falsy and not the
\* number 0
missingSeqNo(x) ==
    \/ x.t \in {"undefined", "null"}
    \/ x.t = "boolean" /\ Len(x.digits) = 0
    \/ x.t = "number" /\ x.nan
    \/ x.t = "bigint" /\ Len(x.digits) = 0
    \/ x.t = "string" /\ Len(x.chars) = 0

zeros(n) == [i \in 1..n |-> 48]
digitChars(ds) == [i \in 1..Len(ds) |-> ds[i] + 48]
naturalToString(n) == digitChars(naturalDigits(n))

\* Number::toString of a finite number other than 0 with digits ds and
\* exponent n: plain digits up to 10^21 and down to 10^-6, else d.ddde+-x
numberToString(ds, n) ==
    IF Len(ds) <= n /\ n <= 21 THEN digitChars(ds) \o zeros(n - Len(ds))
    ELSE IF 0 < n /\ n <= 21
    THEN digitChars(SubSeq(ds, 1, n)) \o <<46>> \o digitChars(SubSeq(ds, n + 1, Len(ds)))
    ELSE IF -6 < n /\ n <= 0 THEN <<48, 46>> \o zeros(0 - n) \o digitChars(ds)
    ELSE digitChars(<<ds[1]>>)
         \o (IF Len(ds) > 1 THEN <<46>> \o digitChars(Tail(ds)) ELSE <<>>)
         \o <<101, IF n - 1 < 0 THEN 45 ELSE 43>>
         \o naturalToString(IF n - 1 < 0 THEN 1 - n ELSE n - 1)

\* ToString of a primitive that is not a symbol
primitiveToString(x) ==
    IF x.t = "undefined" THEN <<117, 110, 100, 101, 102, 105, 110, 101, 100>>
    ELSE IF x.t = "null" THEN <<110, 117, 108, 108>>
    ELSE IF x.t = "boolean"
    THEN (IF Len(x.digits) > 0 THEN <<116, 114, 117, 101>> ELSE <<102, 97, 108, 115, 101>>)
    ELSE IF x.t = "string" THEN x.chars
    ELSE IF x.t = "bigint"
    THEN (IF x.neg THEN <<45>> ELSE <<>>)
         \o (IF Len(x.digits) = 0 THEN <<48>>
             ELSE digitChars(x.digits) \o zeros(x.exp - Len(x.digits)))
    ELSE IF x.nan THEN <<78, 97, 78>>
    ELSE IF x.inf THEN (IF x.neg THEN <<45>> ELSE <<>>) \o InfinityChars
    ELSE IF Len(x.digits) = 0 THEN <<48>>
    ELSE (IF x.neg THEN <<45>> ELSE <<>>) \o numberToString(x.digits, x.exp)

\* `${x}` inside a template literal (line 9) throws for a symbol and for an
\* object that has no primitive or whose primitive is a symbol
toStringThrows(x) == ToPrimitive(x, "string").t \in {"symbol", "throw"}

toString(x) == primitiveToString(ToPrimitive(x, "string"))

\* the code units of a database id
StringChars ==
    ("d1" :> <<100, 49>>) @@ ("d2" :> <<100, 50>>)
    @@ ("d1/1" :> <<100, 49, 47, 49>>)

\* getS3DbStateKey (line 9): `${databaseId}/${bundleSeqNo}`, one string
getS3DbStateKey(databaseId, bundleSeqNo) ==
    StringChars[databaseId] \o <<47>> \o toString(bundleSeqNo)

(***************************************************************************)
(* Bundle bodies are strings (sequences of UTF-16 code units); the blob    *)
(* store holds bytes.  s3.upload stores the UTF-8 encoding of a string     *)
(* Body, and Body.toString() (line 335) decodes UTF-8, replacing each      *)
(* maximal ill-formed part by U+FFFD.                                      *)
(***************************************************************************)
isHighSurrogate(u) == u >= 55296 /\ u <= 56319
isLowSurrogate(u) == u >= 56320 /\ u <= 57343

\* the bytes of one code point
utf8EncodePoint(cp) ==
    IF cp < 128 THEN <<cp>>
    ELSE IF cp < 2048 THEN <<192 + (cp \div 64), 128 + (cp % 64)>>
    ELSE IF cp >= 55296 /\ cp <= 57343 THEN <<239, 191, 189>>   \* lone surrogate
    ELSE IF cp < 65536
         THEN <<224 + (cp \div 4096), 128 + ((cp \div 64) % 64), 128 + (cp % 64)>>
    ELSE <<240 + (cp \div 262144), 128 + ((cp \div 4096) % 64),
           128 + ((cp \div 64) % 64), 128 + (cp % 64)>>

RECURSIVE utf8Encode(_)
utf8Encode(str) ==
    IF Len(str) = 0 THEN <<>>
    ELSE IF Len(str) >= 2 /\ isHighSurrogate(str[1]) /\ isLowSurrogate(str[2])
         THEN utf8EncodePoint(65536 + (str[1] - 55296) * 1024 + (str[2] - 56320))
              \o utf8Encode(SubSeq(str, 3, Len(str)))
    ELSE utf8EncodePoint(str[1]) \o utf8Encode(Tail(str))

\* how many bytes follow the lead byte b, 0 for a byte that cannot lead
trailCount(b) ==
    IF b >= 194 /\ b <= 223 THEN 1
    ELSE IF b >= 224 /\ b <= 239 THEN 2
    ELSE IF b >= 240 /\ b <= 244 THEN 3
    ELSE 0

\* is byte c allowed at position k (2, 3 or 4) of a sequence led by b
isTrail(b, k, c) ==
    IF k > 2 THEN c >= 128 /\ c <= 191
    ELSE IF b = 224 THEN c >= 160 /\ c <= 191
    ELSE IF b = 237 THEN c >= 128 /\ c <= 159
    ELSE IF b = 240 THEN c >= 144 /\ c <= 191
    ELSE IF b = 244 THEN c >= 128 /\ c <= 143
    ELSE c >= 128 /\ c <= 191

\* the number of bytes, lead included, that form a well-formed prefix of a
\* sequence at the head of bytes
RECURSIVE wellFormedPrefix(_, _)
wellFormedPrefix(bytes, k) ==
    IF k > trailCount(bytes[1]) + 1 \/ k > Len(bytes) \/ ~isTrail(bytes[1], k, bytes[k])
    THEN k - 1
    ELSE wellFormedPrefix(bytes, k + 1)

codePoint(bytes) ==
    IF trailCount(bytes[1]) = 1 THEN (bytes[1] - 192) * 64 + (bytes[2] - 128)
    ELSE IF trailCount(bytes[1]) = 2
         THEN (bytes[1] - 224) * 4096 + (bytes[2] - 128) * 64 + (bytes[3] - 128)
    ELSE (bytes[1] - 240) * 262144 + (bytes[2] - 128) * 4096
         + (bytes[3] - 128) * 64 + (bytes[4] - 128)

\* the UTF-16 code units of one code point
codeUnits(cp) ==
    IF cp < 65536 THEN <<cp>>
    ELSE <<55296 + ((cp - 65536) \div 1024), 56320 + ((cp - 65536) % 1024)>>

RECURSIVE bodyToString(_)
bodyToString(bytes) ==
    IF Len(bytes) = 0 THEN <<>>
    ELSE IF bytes[1] < 128 THEN <<bytes[1]>> \o bodyToString(Tail(bytes))
    ELSE IF trailCount(bytes[1]) = 0 THEN <<65533>> \o bodyToString(Tail(bytes))
    ELSE IF wellFormedPrefix(bytes, 2) = trailCount(bytes[1]) + 1
         THEN codeUnits(codePoint(bytes))
              \o bodyToString(SubSeq(bytes, trailCount(bytes[1]) + 2, Len(bytes)))
    ELSE <<65533>> \o bodyToString(SubSeq(bytes, wellFormedPrefix(bytes, 2) + 1, Len(bytes)))


(***************************************************************************)
(* Responses.  Done records the answer of a call that keeps no record: a   *)
(* validation failure, createDatabase, getBundle.  For createDatabase it   *)
(* also notes whether the tables held the dbId and the alias when the call *)
(* was made, and the reply of the store the answer was built from (NoReply *)
(* for an answer given before the store was called).                       *)
(***************************************************************************)
Response(code, seqNo) == [code |-> code, sequenceNo |-> seqNo]
NoResponse == Response("pending", 0)

Done(op, code) ==
    [op |-> op, code |-> code, dbExisted |-> FALSE, aliasExisted |-> FALSE,
     reply |-> NoReply, body |-> <<>>]

Init ==
    /\ databases = <<>>
    /\ userDatabases = <<>>
    /\ transactions = <<>>
    /\ s3 = <<>>
    /\ txLog = <<>>
    /\ mcBundleSeqNo = <<>>
    /\ createCalls = <<>>
    /\ calls = <<>>
    /\ rollbackCalls = <<>>
    /\ bundleCalls = <<>>
    /\ getCalls = <<>>
    /\ lastDone = Done("none", "none")

(***************************************************************************)
(* createDatabase (lines 11-66): the call up to its await (line 55), the   *)
(* store handling transactWrite, and the reply (lines 57-65).  The         *)
(* validation of lines 12-15 comes before any store call.                  *)
(***************************************************************************)
CreateDatabase(userId, dbNameHash, dbId, encryptedDbName, encryptedDbKey) ==
    LET dbExisted == dbId \in DOMAIN databases
        aliasExisted == <<userId, dbNameHash>> \in DOMAIN userDatabases
    IN  IF Absent \in {dbNameHash, dbId, encryptedDbName, encryptedDbKey}
        THEN /\ lastDone' = [Done("createDatabase", BadRequest) EXCEPT
                                !.dbExisted = dbExisted, !.aliasExisted = aliasExisted]
             /\ UNCHANGED <<registryVars, logVars, bundleVars>>
        ELSE /\ Len(createCalls) < MaxCreateCalls
             /\ createCalls' = Append(createCalls,
                    [userId |-> userId, dbNameHash |-> dbNameHash, dbId |-> dbId,
                     encryptedDbName |-> encryptedDbName,
                     encryptedDbKey |-> encryptedDbKey,
                     reply |-> NoReply, dbExisted |-> dbExisted,
                     aliasExisted |-> aliasExisted])
             /\ UNCHANGED <<databases, userDatabases, logVars, bundleVars, lastDone>>

\* mutant: two independent guarded puts instead of one transactWrite
StoreTransactWriteTwoPuts(i, outcome) ==
    LET c == createCalls[i]
        alias == <<c.userId, c.dbNameHash>>
        dbExisted == c.dbId \in DOMAIN databases
        aliasExisted == alias \in DOMAIN userDatabases
        database == [owner |-> c.userId, name |-> c.encryptedDbName, bundleSeqNo |-> <<>>]
        userDatabase == [dbId |-> c.dbId, key |-> c.encryptedDbKey]
    IN  /\ c.reply = NoReply
        /\ databases' = IF applied(outcome, ~dbExisted)
                        THEN putItem(databases, c.dbId, database)
                        ELSE databases
        /\ userDatabases' = IF applied(outcome, ~aliasExisted)
                            THEN putItem(userDatabases, alias, userDatabase)
                            ELSE userDatabases
        /\ createCalls' = [createCalls EXCEPT ![i].reply =
                              replyOf(outcome, ~dbExisted /\ ~aliasExisted)]
        /\ UNCHANGED <<logVars, bundleVars, lastDone>>

\* DynamoDB handles the transactWrite of lines 31-51: both puts or neither
StoreTransactWrite(i, outcome) ==
    LET c == createCalls[i]
        alias == <<c.userId, c.dbNameHash>>
        dbExisted == c.dbId \in DOMAIN databases
        aliasExisted == alias \in DOMAIN userDatabases
        database == [owner |-> c.userId, name |-> c.encryptedDbName, bundleSeqNo |-> <<>>]
        userDatabase == [dbId |-> c.dbId, key |-> c.encryptedDbKey]
    IN  /\ c.reply = NoReply
        /\ databases' = IF applied(outcome, ~dbExisted /\ ~aliasExisted)
                        THEN putItem(databases, c.dbId, database)
                        ELSE databases
        /\ userDatabases' = IF applied(outcome, ~dbExisted /\ ~aliasExisted)
                            THEN putItem(userDatabases, alias, userDatabase)
                            ELSE userDatabases
        /\ createCalls' = [createCalls EXCEPT ![i].reply =
                              replyOf(outcome, ~dbExisted /\ ~aliasExisted)]
        /\ UNCHANGED <<logVars, bundleVars, lastDone>>

\* the await of line 55 ends: initTransactionLog and success, or the catch
CreateReturn(i) ==
    LET c == createCalls[i]
        result(code) == [Done("createDatabase", code) EXCEPT
                            !.dbExisted = c.dbExisted, !.aliasExisted = c.aliasExisted,
                            !.reply = c.reply]
    IN  /\ c.reply # NoReply
        /\ txLog' = IF c.reply = "ok" THEN initTransactionLog(txLog, c.dbId) ELSE txLog
        /\ lastDone' = result(IF c.reply = "ok" THEN Success
                              ELSE IF c.reply = "conditional" THEN Conflict
                              ELSE InternalError)
        /\ createCalls' = remove(createCalls, i)
        /\ UNCHANGED <<databases, userDatabases, transactions, calls, rollbackCalls,
                       bundleVars>>

(***************************************************************************)
(* putTransaction, first half (lines 176-190): the Sequencer assigns the   *)
(* sequence number synchronously, then the guarded put is issued and the   *)
(* call suspends.  For a database the Sequencer has no log for,            *)
(* pushTransaction (line 177) throws, putTransaction rejects and the catch *)
(* of doCommand or batch (lines 221, 261) answers internal-error.          *)
(***************************************************************************)
NewCall(op, userId, databaseId, transaction, seqNo) ==
    [op |-> op, userId |-> userId, dbId |-> databaseId, transaction |-> transaction,
     sequenceNo |-> seqNo, pc |-> "put", reply |-> NoReply,
     response |-> NoResponse, pushed |-> "no", pushedTo |-> <<>>,
     rollback |-> "none", rollbackReply |-> NoReply]

\* mutant: the number is read from the Sequencer but the claim is made only
\* once the put has returned, so a second caller reads the same number
PutTransactionReadOnly(op, userId, databaseId, transaction) ==
    IF databaseId \notin DOMAIN txLog
    THEN /\ lastDone' = Done(op, InternalError)
         /\ UNCHANGED <<registryVars, logVars, bundleVars>>
    ELSE /\ calls' = Append(calls, NewCall(op, userId, databaseId, transaction,
                                           assignedSequenceNo(txLog, databaseId)))
         /\ UNCHANGED <<registryVars, transactions, txLog, rollbackCalls, bundleVars,
                        lastDone>>

\* mutant: the number is one more than the count of the database's entries
\* in the Log Store, not the Sequencer's next number
PutTransactionFromStore(op, userId, databaseId, transaction) ==
    IF databaseId \notin DOMAIN txLog
    THEN /\ lastDone' = Done(op, InternalError)
         /\ UNCHANGED <<registryVars, logVars, bundleVars>>
    ELSE /\ txLog' = pushTransaction(txLog, databaseId)
         /\ calls' = Append(calls, NewCall(op, userId, databaseId, transaction,
                      Cardinality({slot \in DOMAIN transactions : slot[1] = databaseId}) + 1))
         /\ UNCHANGED <<registryVars, transactions, rollbackCalls, bundleVars, lastDone>>

PutTransaction(op, userId, databaseId, transaction) ==
    IF databaseId \notin DOMAIN txLog
    THEN /\ lastDone' = Done(op, InternalError)
         /\ UNCHANGED <<registryVars, logVars, bundleVars>>
    ELSE /\ txLog' = pushTransaction(txLog, databaseId)
         /\ calls' = Append(calls, NewCall(op, userId, databaseId, transaction,
                                           assignedSequenceNo(txLog, databaseId)))
         /\ UNCHANGED <<registryVars, transactions, rollbackCalls, bundleVars, lastDone>>

\* a validation failure: the handler returns before any state is touched
RejectCall(op) ==
    /\ lastDone' = Done(op, BadRequest)
    /\ UNCHANGED <<registryVars, logVars, bundleVars>>

(***************************************************************************)
(* doCommand (lines 206-224), up to the suspension inside putTransaction.  *)
(***************************************************************************)
DoCommand(command, userId, databaseId, key, record) ==
    /\ Len(calls) < MaxCalls
    /\ IF Absent \in {databaseId, key, record}
       THEN RejectCall("doCommand")
       ELSE PutTransaction("doCommand", userId, databaseId,
                           singleTransaction(command, key, record))

(***************************************************************************)
(* batch (lines 226-264), up to the suspension inside putTransaction.      *)
(* operations is the submitted list; an operation is a record of key,      *)
(* record and command, each possibly Absent.                               *)
(***************************************************************************)
Operation(itemKey, encryptedItem, command) ==
    [itemKey |-> itemKey, encryptedItem |-> encryptedItem, command |-> command]

\* lines 237-239
validOperation(operation) ==
    Absent \notin {operation.itemKey, operation.encryptedItem, operation.command}

\* mutant: each result is put at the front of ops
batchOperationsReversed(operations) ==
    [i \in 1..Len(operations) |->
        [key |-> operations[Len(operations) + 1 - i].itemKey,
         record |-> operations[Len(operations) + 1 - i].encryptedItem,
         command |-> operations[Len(operations) + 1 - i].command]]

\* the loop of lines 230-248: ops holds one {key, record, command} per
\* submitted operation, in the submitted order
batchOperations(operations) ==
    [i \in 1..Len(operations) |->
        [key |-> operations[i].itemKey, record |-> operations[i].encryptedItem,
         command |-> operations[i].command]]

Batch(userId, databaseId, operations) ==
    /\ Len(calls) < MaxCalls
    /\ IF \/ databaseId = Absent
          \/ Len(operations) = 0
          \/ \E i \in 1..Len(operations) : ~validOperation(operations[i])
       THEN RejectCall("batch")
       ELSE PutTransaction("batch", userId, databaseId,
                           batchTransaction(batchOperations(operations)))

(***************************************************************************)
(* The put of putTransaction (line 190) at the store, and its reply: the   *)
(* second half of putTransaction (lines 192-204) and the return of         *)
(* doCommand or batch (lines 219-223, 259-263).  pushOk is whether         *)
(* connections.push returns normally.                                      *)
(***************************************************************************)
StorePut(i, outcome) ==
    LET c == calls[i]
        slot == <<c.dbId, c.sequenceNo>>
        condition == putCondition(transactions, slot)
    IN  /\ c.pc = "put" /\ c.reply = NoReply
        /\ transactions' = IF applied(outcome, condition)
                           THEN putItem(transactions, slot, c.transaction)
                           ELSE transactions
        /\ calls' = [calls EXCEPT ![i].reply = replyOf(outcome, condition)]
        /\ UNCHANGED <<registryVars, txLog, rollbackCalls, bundleVars, lastDone>>

PutSucceeded(i, pushOk) ==
    LET c == calls[i]
    IN  /\ txLog' = transactionPersistedToDdb(txLog, c.dbId, c.sequenceNo)
        /\ calls' = [calls EXCEPT ![i] =
                        [@ EXCEPT !.pc = "done", !.reply = NoReply,
                                  !.pushed = IF pushOk THEN "ok" ELSE "threw",
                                  !.pushedTo = <<c.dbId, c.userId>>,
                                  !.response = IF pushOk
                                               THEN Response(Success, c.sequenceNo)
                                               ELSE Response(InternalError, 0)]]

\* mutant: the catch block does not rethrow, and the Notifier is reached
PutFailedNotifies(i) ==
    LET c == calls[i]
    IN  /\ calls' = [calls EXCEPT ![i] =
                        [@ EXCEPT !.pc = "done", !.reply = NoReply, !.rollback = "put",
                                  !.pushed = "ok",
                                  !.response = Response(Success, c.sequenceNo)]]
        /\ UNCHANGED txLog

\* the catch block: log, start rollbackTransaction (which runs up to its own
\* put and suspends), rethrow; the caller answers internal-error
PutFailed(i) ==
    /\ calls' = [calls EXCEPT ![i] =
                    [@ EXCEPT !.pc = "done", !.reply = NoReply, !.rollback = "put",
                              !.response = Response(InternalError, 0)]]
    /\ UNCHANGED txLog

PutReturn(i, pushOk) ==
    /\ calls[i].pc = "put" /\ calls[i].reply # NoReply
    /\ IF calls[i].reply = "ok" THEN PutSucceeded(i, pushOk) ELSE PutFailed(i)
    /\ UNCHANGED <<registryVars, transactions, rollbackCalls, bundleVars, lastDone>>

(***************************************************************************)
(* rollbackTransaction (lines 134-172): its put (line 159) at the store,   *)
(* and what the reply does to the Sequencer (lines 161-170).               *)
(***************************************************************************)
rollbackPut(table, slot, outcome) ==
    IF applied(outcome, rollbackCondition(table, slot))
    THEN putItem(table, slot, transactionWithRollbackCommand)
    ELSE table

\* mutant: the marker write is followed by the wrong status call
rollbackSettledMarksPersisted(log, dbId, seqNo, reply) ==
    IF reply = "error" THEN log ELSE transactionPersistedToDdb(log, dbId, seqNo)

rollbackSettled(log, dbId, seqNo, reply) ==
    IF reply = "ok" THEN transactionRolledBack(log, dbId, seqNo)
    ELSE IF reply = "conditional"   \* ConditionalCheckFailedException
    THEN transactionPersistedToDdb(log, dbId, seqNo)
    ELSE log

rollbackOutcome(reply) ==
    IF reply = "ok" THEN "rolled-back"
    ELSE IF reply = "conditional" THEN "reconciled"
    ELSE "failed"

\* the put of the rollback a failed commit started (line 196)
StoreRollbackPut(i, outcome) ==
    LET c == calls[i]
        slot == <<c.dbId, c.sequenceNo>>
    IN  /\ c.rollback = "put" /\ c.rollbackReply = NoReply
        /\ transactions' = rollbackPut(transactions, slot, outcome)
        /\ calls' = [calls EXCEPT ![i].rollbackReply =
                        replyOf(outcome, rollbackCondition(transactions, slot))]
        /\ UNCHANGED <<registryVars, txLog, rollbackCalls, bundleVars, lastDone>>

\* mutant: the rollback is awaited and a reconciled slot is reported to the
\* caller as a success
RollbackReturnSurfaces(i) ==
    LET c == calls[i]
    IN  /\ c.rollback = "put" /\ c.rollbackReply # NoReply
        /\ txLog' = rollbackSettled(txLog, c.dbId, c.sequenceNo, c.rollbackReply)
        /\ calls' = [calls EXCEPT ![i] =
                        [@ EXCEPT !.rollback = rollbackOutcome(c.rollbackReply),
                                  !.rollbackReply = NoReply,
                                  !.response = IF c.rollbackReply = "conditional"
                                               THEN Response(Success, c.sequenceNo)
                                               ELSE @]]
        /\ UNCHANGED <<registryVars, transactions, rollbackCalls, bundleVars, lastDone>>

\* mutant: the marker put is reissued until it is written
RollbackReturnRetries(i) ==
    LET c == calls[i]
    IN  /\ c.rollback = "put" /\ c.rollbackReply # NoReply
        /\ txLog' = IF c.rollbackReply = "ok"
                    THEN transactionRolledBack(txLog, c.dbId, c.sequenceNo)
                    ELSE txLog
        /\ calls' = [calls EXCEPT ![i] =
                        IF c.rollbackReply = "ok"
                        THEN [@ EXCEPT !.rollback = "rolled-back", !.rollbackReply = NoReply]
                        ELSE [@ EXCEPT !.rollbackReply = NoReply]]
        /\ UNCHANGED <<registryVars, transactions, rollbackCalls, bundleVars, lastDone>>

RollbackReturn(i) ==
    LET c == calls[i]
    IN  /\ c.rollback = "put" /\ c.rollbackReply # NoReply
        /\ txLog' = rollbackSettled(txLog, c.dbId, c.sequenceNo, c.rollbackReply)
        /\ calls' = [calls EXCEPT ![i] =
                        [@ EXCEPT !.rollback = rollbackOutcome(c.rollbackReply),
                                  !.rollbackReply = NoReply]]
        /\ UNCHANGED <<registryVars, transactions, rollbackCalls, bundleVars, lastDone>>

(***************************************************************************)
(* exports.rollbackTransaction (line 174) called from outside db.js: the   *)
(* function up to its await (line 159).  It belongs to no commit call and  *)
(* answers nothing; its record lasts from its put to the reply.            *)
(***************************************************************************)
RollbackTransaction(databaseId, sequenceNo) ==
    /\ Len(rollbackCalls) < MaxRollbackCalls
    /\ rollbackCalls' = Append(rollbackCalls,
            [dbId |-> databaseId, sequenceNo |-> sequenceNo, reply |-> NoReply])
    /\ UNCHANGED <<registryVars, transactions, txLog, calls, bundleVars, lastDone>>

StoreRollbackCallPut(j, outcome) ==
    LET r == rollbackCalls[j]
        slot == <<r.dbId, r.sequenceNo>>
    IN  /\ r.reply = NoReply
        /\ transactions' = rollbackPut(transactions, slot, outcome)
        /\ rollbackCalls' = [rollbackCalls EXCEPT ![j].reply =
                                replyOf(outcome, rollbackCondition(transactions, slot))]
        /\ UNCHANGED <<registryVars, txLog, calls, bundleVars, lastDone>>

RollbackCallReturn(j) ==
    LET r == rollbackCalls[j]
    IN  /\ r.reply # NoReply
        /\ txLog' = rollbackSettled(txLog, r.dbId, r.sequenceNo, r.reply)
        /\ rollbackCalls' = remove(rollbackCalls, j)
        /\ UNCHANGED <<registryVars, transactions, calls, bundleVars, lastDone>>

(***************************************************************************)
(* bundleTransactionLog (lines 266-319): the call (the conversion, the     *)
(* validation and the issue of the lookup), then the lookup, the upload    *)
(* and the guarded update, each at the store and at its reply.             *)
(***************************************************************************)
\* mutant: > in place of >=
notGreaterThanCurrentStrict(lastBundleSeqNo, bundleSeqNo) ==
    Len(lastBundleSeqNo) > 0 /\ numberLess(bundleSeqNo, lastBundleSeqNo[1])

\* mutant: the pointer update carries no ConditionExpression
bundleConditionNone(lastBundleSeqNo, bundleSeqNo) == TRUE

\* lastBundleSeqNo >= bundleSeqNo (line 278); an unset attribute is undefined,
\* and undefined >= n is false
notGreaterThanCurrent(lastBundleSeqNo, bundleSeqNo) ==
    Len(lastBundleSeqNo) > 0 /\ ~numberLess(lastBundleSeqNo[1], bundleSeqNo)

\* ConditionExpression of the pointer update (line 300)
bundleCondition(lastBundleSeqNo, bundleSeqNo) ==
    Len(lastBundleSeqNo) = 0 \/ numberLess(lastBundleSeqNo[1], bundleSeqNo)

\* ExpressionAttributeValues of the pointer update (lines 304-306): the
\* store takes 0 and the finite numbers from 1e-130 up to, not including,
\* 1e126, and refuses the request otherwise
MinStorableExponent == -129
MaxStorableExponent == 126

storableNumber(bundleSeqNo) ==
    /\ ~bundleSeqNo.inf
    /\ \/ Len(bundleSeqNo.digits) = 0
       \/ /\ bundleSeqNo.exp >= MinStorableExponent
          /\ bundleSeqNo.exp <= MaxStorableExponent

\* the attribute the store keeps for a number: the number of the decimal
\* text the client sends, in which -0 is 0
storedNumber(bundleSeqNo) ==
    IF isZero(bundleSeqNo) THEN Num(0) ELSE bundleSeqNo

\* memcache.setBundleSeqNo: modelled from the collaborator contract
setBundleSeqNo(mc, databaseId, bundleSeqNo) == putItem(mc, databaseId, bundleSeqNo)

BundleDone(i, code) ==
    bundleCalls' = [bundleCalls EXCEPT ![i] =
                       [@ EXCEPT !.pc = "done", !.reply = NoReply, !.code = code]]

BundleTransactionLog(databaseId, seqNo, bundle) ==
    LET bundleSeqNo == Number(seqNo)
    IN  /\ Len(bundleCalls) < MaxBundleCalls
        /\ IF bundleSeqNo.t = "throw"
           THEN /\ lastDone' = Done("bundleTransactionLog", Rejected)
                /\ UNCHANGED <<registryVars, logVars, bundleVars>>
           ELSE IF bundleSeqNo.nan
           THEN /\ lastDone' = Done("bundleTransactionLog", BadRequest)
                /\ UNCHANGED <<registryVars, logVars, bundleVars>>
           ELSE /\ bundleCalls' = Append(bundleCalls,
                      [dbId |-> databaseId, seqNo |-> bundleSeqNo, bundle |-> bundle,
                       pc |-> "find", reply |-> NoReply, database |-> <<>>,
                       code |-> "pending",
                       pointerAtCall |-> IF databaseId \in DOMAIN databases
                                         THEN databases[databaseId].bundleSeqNo
                                         ELSE <<>>,
                       uploaded |-> FALSE, updated |-> FALSE, informed |-> FALSE])
                /\ UNCHANGED <<registryVars, logVars, s3, mcBundleSeqNo, getCalls,
                               lastDone>>

\* DynamoDB handles the get of findDatabaseByDatabaseId (line 78): the item
\* as it is now, or none
StoreGet(i, outcome) ==
    LET b == bundleCalls[i]
    IN  /\ b.pc = "find" /\ b.reply = NoReply
        /\ bundleCalls' = [bundleCalls EXCEPT ![i] =
                [@ EXCEPT !.reply = outcome,
                          !.database = IF outcome = "ok" /\ b.dbId \in DOMAIN databases
                                       THEN <<databases[b.dbId]>>
                                       ELSE <<>>]]
        /\ UNCHANGED <<registryVars, logVars, s3, mcBundleSeqNo, getCalls, lastDone>>

\* findDatabaseByDatabaseId returns (lines 274-288); an "error" reply goes
\* to the catch (line 315)
BundleFind(i) ==
    LET b == bundleCalls[i]
    IN  /\ b.pc = "find" /\ b.reply # NoReply
        /\ IF b.reply = "error"
           THEN BundleDone(i, InternalError)
           ELSE IF Len(b.database) = 0
           THEN BundleDone(i, NotFound)
           ELSE IF notGreaterThanCurrent(b.database[1].bundleSeqNo, b.seqNo)
           THEN BundleDone(i, BadRequest)
           ELSE bundleCalls' = [bundleCalls EXCEPT ![i] =
                                   [@ EXCEPT !.pc = "upload", !.reply = NoReply]]
        /\ UNCHANGED <<registryVars, logVars, s3, mcBundleSeqNo, getCalls, lastDone>>

\* S3 handles the upload of lines 282-290; an upload replaces what the key
\* holds
StoreUpload(i, outcome) ==
    LET b == bundleCalls[i]
    IN  /\ b.pc = "upload" /\ b.reply = NoReply
        /\ s3' = IF applied(outcome, TRUE)
                 THEN putItem(s3, getS3DbStateKey(b.dbId, b.seqNo), utf8Encode(b.bundle))
                 ELSE s3
        /\ bundleCalls' = [bundleCalls EXCEPT ![i] =
                              [@ EXCEPT !.reply = replyOf(outcome, TRUE),
                                        !.uploaded = applied(outcome, TRUE)]]
        /\ UNCHANGED <<registryVars, logVars, mcBundleSeqNo, getCalls, lastDone>>

\* mutant: a failed upload is not noticed and the pointer update follows
BundleUploadIgnoresFailure(i) ==
    LET b == bundleCalls[i]
    IN  /\ b.pc = "upload" /\ b.reply # NoReply
        /\ bundleCalls' = [bundleCalls EXCEPT ![i] =
                              [@ EXCEPT !.pc = "update", !.reply = NoReply]]
        /\ UNCHANGED <<registryVars, logVars, s3, mcBundleSeqNo, getCalls, lastDone>>

\* s3.upload returns (lines 290-310)
BundleUpload(i) ==
    LET b == bundleCalls[i]
    IN  /\ b.pc = "upload" /\ b.reply # NoReply
        /\ IF b.reply = "ok"
           THEN bundleCalls' = [bundleCalls EXCEPT ![i] =
                                   [@ EXCEPT !.pc = "update", !.reply = NoReply]]
           ELSE BundleDone(i, InternalError)
        /\ UNCHANGED <<registryVars, logVars, s3, mcBundleSeqNo, getCalls, lastDone>>

\* DynamoDB handles the guarded update of lines 294-310
StoreUpdate(i, outcome) ==
    LET b == bundleCalls[i]
        condition == /\ storableNumber(b.seqNo)
                     /\ bundleCondition(databases[b.dbId].bundleSeqNo, b.seqNo)
    IN  /\ b.pc = "update" /\ b.reply = NoReply
        /\ databases' = IF applied(outcome, condition)
                        THEN [databases EXCEPT ![b.dbId].bundleSeqNo =
                                              <<storedNumber(b.seqNo)>>]
                        ELSE databases
        /\ bundleCalls' = [bundleCalls EXCEPT ![i] =
                              [@ EXCEPT !.reply = replyOf(outcome, condition),
                                        !.updated = applied(outcome, condition)]]
        /\ UNCHANGED <<userDatabases, createCalls, logVars, s3, mcBundleSeqNo, getCalls,
                       lastDone>>

\* mutant: the Sequencer is informed whether or not the update succeeded
BundleUpdateInformsAlways(i) ==
    LET b == bundleCalls[i]
    IN  /\ b.pc = "update" /\ b.reply # NoReply
        /\ mcBundleSeqNo' = setBundleSeqNo(mcBundleSeqNo, b.dbId, b.seqNo)
        /\ bundleCalls' = [bundleCalls EXCEPT ![i] =
                              [@ EXCEPT !.pc = "done", !.reply = NoReply,
                                        !.informed = TRUE,
                                        !.code = IF b.reply = "ok" THEN Success
                                                 ELSE InternalError]]
        /\ UNCHANGED <<registryVars, logVars, s3, getCalls, lastDone>>

\* ddbClient.update returns (lines 310-318)
BundleUpdate(i) ==
    LET b == bundleCalls[i]
    IN  /\ b.pc = "update" /\ b.reply # NoReply
        /\ IF b.reply = "ok"
           THEN /\ mcBundleSeqNo' = setBundleSeqNo(mcBundleSeqNo, b.dbId, b.seqNo)
                /\ bundleCalls' = [bundleCalls EXCEPT ![i] =
                                      [@ EXCEPT !.pc = "done", !.reply = NoReply,
                                                !.code = Success, !.informed = TRUE]]
           ELSE \* ConditionalCheckFailedException or another failure
                /\ BundleDone(i, InternalError)
                /\ UNCHANGED mcBundleSeqNo
        /\ UNCHANGED <<registryVars, logVars, s3, getCalls, lastDone>>

(***************************************************************************)
(* getBundle (lines 321-348): the call up to its await (line 334), the     *)
(* store handling getObject, and the reply (lines 335-343).                *)
(***************************************************************************)
GetBundle(databaseId, bundleSeqNo) ==
    IF missingSeqNo(bundleSeqNo)
    THEN /\ lastDone' = Done("getBundle", BadRequest)
         /\ UNCHANGED <<registryVars, logVars, bundleVars>>
    ELSE IF toStringThrows(bundleSeqNo)     \* line 329, caught at line 345
    THEN /\ lastDone' = Done("getBundle", InternalError)
         /\ UNCHANGED <<registryVars, logVars, bundleVars>>
    ELSE /\ Len(getCalls) < MaxGetCalls
         /\ getCalls' = Append(getCalls,
                [key |-> getS3DbStateKey(databaseId, bundleSeqNo), reply |-> NoReply,
                 body |-> <<>>])
         /\ UNCHANGED <<registryVars, logVars, s3, mcBundleSeqNo, bundleCalls, lastDone>>

\* what S3 answers to getObject: the bytes at the key, or 404 Not Found
getObject(store, key, outcome) ==
    IF outcome = "error" THEN [reply |-> "error", body |-> <<>>]
    ELSE IF key \notin DOMAIN store THEN [reply |-> "not-found", body |-> <<>>]
    ELSE [reply |-> "ok", body |-> store[key]]

StoreGetObject(j, outcome) ==
    /\ getCalls[j].reply = NoReply
    /\ getCalls' = [getCalls EXCEPT ![j] =
                       [@ EXCEPT !.reply = getObject(s3, getCalls[j].key, outcome).reply,
                                 !.body = getObject(s3, getCalls[j].key, outcome).body]]
    /\ UNCHANGED <<registryVars, logVars, s3, mcBundleSeqNo, bundleCalls, lastDone>>

\* lines 335-343: the text of the body, not-found for 404, else internal-error
getBundleResponse(result) ==
    IF result.reply = "ok"
    THEN [Done("getBundle", Success) EXCEPT !.body = bodyToString(result.body)]
    ELSE IF result.reply = "not-found" THEN Done("getBundle", NotFound)
    ELSE Done("getBundle", InternalError)

GetBundleReturn(j) ==
    /\ getCalls[j].reply # NoReply
    /\ lastDone' = getBundleResponse(getCalls[j])
    /\ getCalls' = remove(getCalls, j)
    /\ UNCHANGED <<registryVars, logVars, s3, mcBundleSeqNo, bundleCalls>>

(***************************************************************************)
(* Inputs of the entry points: argument tuples, valid and invalid.         *)
(***************************************************************************)
OpA == Operation("k", "r1", "Insert")
OpB == Operation("k", "r2", "Delete")
OpNoKey == Operation(Absent, "r1", "Insert")

CreateInputs ==
    { <<"u1", "h1", "d1", "n", "k">>, <<"u2", "h1", "d2", "n", "k">>,
      <<"u2", "h1", "d1", "n", "k">>,
      <<"u1", Absent, "d1", "n", "k">>, <<"u1", "h1", Absent, "n", "k">>,
      <<"u1", "h1", "d1", Absent, "k">>, <<"u1", "h1", "d1", "n", Absent>> }

DoCommandInputs ==
    { <<"Insert", "u1", "d1", "k", "r1">>,
      <<"rollback", "u2", "d1", "k", "r2">>,
      <<"Insert", "u1", "d2", "k", "r1">>,
      <<"Insert", "u1", Absent, "k", "r1">>, <<"Insert", "u1", "d1", Absent, "r1">>,
      <<"Insert", "u1", "d1", "k", Absent>> }

BatchInputs ==
    { <<"u2", "d1", <<OpA, OpB>>>>,
      <<"u1", Absent, <<OpA>>>>, <<"u1", "d1", <<>>>>, <<"u1", "d1", <<OpA, OpNoKey>>>> }

\* the owner creates the database, and again only after an attempt that
\* left no record
CreateOneStep ==
    /\ "d1" \notin DOMAIN databases /\ Len(createCalls) = 0
    /\ CreateDatabase("u1", "h1", "d1", "n", "k")

CreateStep ==
    \E a \in CreateInputs : CreateDatabase(a[1], a[2], a[3], a[4], a[5])

StoreTransactWriteStep ==
    \E i \in 1..Len(createCalls), outcome \in Outcomes : StoreTransactWrite(i, outcome)

CreateReturnStep == \E i \in 1..Len(createCalls) : CreateReturn(i)

DoCommandStep ==
    \E a \in DoCommandInputs : DoCommand(a[1], a[2], a[3], a[4], a[5])

BatchStep ==
    \E a \in BatchInputs : Batch(a[1], a[2], a[3])

StorePutStep ==
    \E i \in 1..Len(calls), outcome \in Outcomes : StorePut(i, outcome)

PutReturnStep ==
    \E i \in 1..Len(calls), pushOk \in BOOLEAN : PutReturn(i, pushOk)

StoreRollbackPutStep ==
    \E i \in 1..Len(calls), outcome \in Outcomes : StoreRollbackPut(i, outcome)

RollbackReturnStep == \E i \in 1..Len(calls) : RollbackReturn(i)

\* the transactions handed to rollbackTransaction (line 134 takes any): the
\* two slots of d1 the commits get, before they are assigned, while the
\* commit is in flight and after it ended, and a slot of a database that
\* was never created
RollbackInputs == { <<"d1", 1>>, <<"d1", 2>>, <<"d9", 3>> }

RollbackTransactionStep ==
    \E a \in RollbackInputs : RollbackTransaction(a[1], a[2])

StoreRollbackCallPutStep ==
    \E j \in 1..Len(rollbackCalls), outcome \in Outcomes : StoreRollbackCallPut(j, outcome)

RollbackCallReturnStep == \E j \in 1..Len(rollbackCalls) : RollbackCallReturn(j)

BodyA == <<115, 65>>      \* "sA"
BodyB == <<233>>          \* "e" with an acute accent, two bytes in UTF-8

\* seqNo arguments 1 and "+2.0"
BundleInputs ==
    { <<"d1", Num(1), BodyA>>, <<"d1", Str(<<43, 50, 46, 48>>), BodyB>> }

\* "01": another spelling of 1, with another bundle
BundleSameKeyInputs == { <<"d1", Str(<<48, 49>>), BodyB>> }

\* further arguments: an unknown database, -1, "-0", null, undefined, "a",
\* true, a line tabulation before "1", the array [7], the bigint 10n, a
\* symbol
BundleEdgeInputs ==
    { <<"d2", Num(1), BodyA>>,
      <<"d1", Num(-1), BodyB>>, <<"d1", Str(<<45, 48>>), BodyA>>,
      <<"d1", Null, BodyA>>,
      <<"d1", Undefined, BodyA>>, <<"d1", Str(<<97>>), BodyA>>,
      <<"d1", Boolean(TRUE), BodyA>>, <<"d1", Str(<<11, 49>>), BodyA>>,
      <<"d1", Obj(NotPrimitive, Str(<<55>>)), BodyA>>,
      <<"d1", BigInt(FALSE, <<1, 0>>), BodyA>>,
      <<"d1", Symbol, BodyA>> }

GetBundleInputs ==
    { <<"d1", Num(1)>>, <<"d1", Str(<<48, 49>>)>>, <<"d1", Num(2)>>,
      <<"d1", Undefined>>, <<"d1", Boolean(FALSE)>>, <<"d1", Symbol>> }

BundleTransactionLogStep ==
    \E a \in BundleInputs : BundleTransactionLog(a[1], a[2], a[3])

BundleSameKeyStep ==
    \E a \in BundleSameKeyInputs : BundleTransactionLog(a[1], a[2], a[3])

BundleEdgeStep ==
    \E a \in BundleEdgeInputs : BundleTransactionLog(a[1], a[2], a[3])

StoreGetStep ==
    \E i \in 1..Len(bundleCalls), outcome \in ReadOutcomes : StoreGet(i, outcome)

BundleFindStep == \E i \in 1..Len(bundleCalls) : BundleFind(i)

StoreUploadStep ==
    \E i \in 1..Len(bundleCalls), outcome \in Outcomes : StoreUpload(i, outcome)

BundleUploadStep == \E i \in 1..Len(bundleCalls) : BundleUpload(i)

StoreUpdateStep ==
    \E i \in 1..Len(bundleCalls), outcome \in Outcomes : StoreUpdate(i, outcome)

BundleUpdateStep == \E i \in 1..Len(bundleCalls) : BundleUpdate(i)

GetBundleStep == \E a \in GetBundleInputs : GetBundle(a[1], a[2])

StoreGetObjectStep ==
    \E j \in 1..Len(getCalls), outcome \in ReadOutcomes : StoreGetObject(j, outcome)

GetBundleReturnStep == \E j \in 1..Len(getCalls) : GetBundleReturn(j)

\* commits of two users against one database, one of them with the command
\* 'rollback', and the rollbacks failed commits start
DoCommandOneStep == DoCommand("Insert", "u1", "d1", "k", "r1")

DoCommandRollbackStep == DoCommand("rollback", "u2", "d1", "k", "r2")

BatchOneStep == Batch("u2", "d1", <<OpA, OpB>>)

NextLog ==
    \/ CreateOneStep
    \/ StoreTransactWriteStep
    \/ CreateReturnStep
    \/ DoCommandOneStep
    \/ DoCommandRollbackStep
    \/ BatchOneStep
    \/ StorePutStep
    \/ PutReturnStep
    \/ StoreRollbackPutStep
    \/ RollbackReturnStep

SpecLog == Init /\ [][NextLog]_vars

\* every doCommand and batch input, and rollbackTransaction called from
\* outside db.js with any of its inputs, whether the slot is assigned or not
NextRollback ==
    \/ CreateOneStep
    \/ StoreTransactWriteStep
    \/ CreateReturnStep
    \/ DoCommandStep
    \/ BatchStep
    \/ StorePutStep
    \/ PutReturnStep
    \/ StoreRollbackPutStep
    \/ RollbackReturnStep
    \/ RollbackTransactionStep
    \/ StoreRollbackCallPutStep
    \/ RollbackCallReturnStep

SpecRollback == Init /\ [][NextRollback]_vars

NextCommit ==
    \/ CreateOneStep
    \/ StoreTransactWriteStep
    \/ CreateReturnStep
    \/ DoCommandOneStep
    \/ BatchOneStep
    \/ StorePutStep
    \/ PutReturnStep
    \/ StoreRollbackPutStep
    \/ RollbackReturnStep

\* every store call that was issued is handled and its reply arrives: the
\* put of a commit (line 190) and the put of a rollback (line 159) are
\* awaited promises that settle
SpecCommitFair ==
    /\ Init /\ [][NextCommit]_vars
    /\ WF_vars(StorePutStep)
    /\ WF_vars(PutReturnStep)
    /\ WF_vars(StoreRollbackPutStep)
    /\ WF_vars(RollbackReturnStep)

\* every createDatabase input
NextRegistry ==
    \/ CreateStep
    \/ StoreTransactWriteStep
    \/ CreateReturnStep

SpecRegistry == Init /\ [][NextRegistry]_vars

\* concurrent bundlers of one database
NextBundle ==
    \/ CreateOneStep
    \/ StoreTransactWriteStep
    \/ CreateReturnStep
    \/ BundleTransactionLogStep
    \/ StoreGetStep
    \/ BundleFindStep
    \/ StoreUploadStep
    \/ BundleUploadStep
    \/ StoreUpdateStep
    \/ BundleUpdateStep

SpecBundle == Init /\ [][NextBundle]_vars

\* bundling with every kind of seqNo argument
NextValidation ==
    \/ CreateOneStep
    \/ StoreTransactWriteStep
    \/ CreateReturnStep
    \/ BundleTransactionLogStep
    \/ BundleEdgeStep
    \/ StoreGetStep
    \/ BundleFindStep
    \/ StoreUploadStep
    \/ BundleUploadStep
    \/ StoreUpdateStep
    \/ BundleUpdateStep

SpecValidation == Init /\ [][NextValidation]_vars

\* bundling and snapshot reads
NextSnapshot ==
    \/ CreateOneStep
    \/ StoreTransactWriteStep
    \/ CreateReturnStep
    \/ BundleTransactionLogStep
    \/ BundleSameKeyStep
    \/ StoreGetStep
    \/ BundleFindStep
    \/ StoreUploadStep
    \/ BundleUploadStep
    \/ StoreUpdateStep
    \/ BundleUpdateStep
    \/ GetBundleStep
    \/ StoreGetObjectStep
    \/ GetBundleReturnStep

SpecSnapshot == Init /\ [][NextSnapshot]_vars

Next == NextLog \/ NextRollback \/ NextRegistry \/ NextBundle \/ NextValidation \/ NextSnapshot

Spec == Init /\ [][Next]_vars

(***************************************************************************)
(* Properties.                                                             *)
(***************************************************************************)
CallsOn(d) == { i \in 1..Len(calls) : calls[i].dbId = d }
SlotOf(i) == <<calls[i].dbId, calls[i].sequenceNo>>
StatusOf(i) == txLog[calls[i].dbId][calls[i].sequenceNo]
StatusAfter(i) == txLog'[calls[i].dbId][calls[i].sequenceNo]
Pointer(d) == databases[d].bundleSeqNo

\* C1: for every database, the sequence numbers handed to the commit calls
\* made against it are pairwise distinct and are exactly 1..k, k the number
\* of those calls, whatever the interleaving of the calls and their writes.
C1_SequenceNumbersDistinctContiguous ==
    \A d \in DOMAIN txLog :
        /\ \A i, j \in CallsOn(d) : i # j => calls[i].sequenceNo # calls[j].sequenceNo
        /\ { calls[i].sequenceNo : i \in CallsOn(d) } = 1..Cardinality(CallsOn(d))

\* two commits against one database are in flight together, their puts
\* not yet handled by the store
C1_Witness ==
    \E i, j \in 1..Len(calls) :
        /\ i # j /\ calls[i].dbId = calls[j].dbId
        /\ calls[i].pc = "put" /\ calls[j].pc = "put"
        /\ calls[i].reply = NoReply /\ calls[j].reply = NoReply

\* C2: in the step in which connections.push is invoked for a call, the
\* call was awaiting its put and the reply it handles is the store's
\* confirmation, and after the step the slot is marked persisted; the
\* store gives a confirmation only in the step in which it writes the
\* call's transaction into the slot, which was empty; a call that took the
\* durable-write failure path never invoked the Notifier.  Nothing is said
\* of what the slot holds when the Notifier is invoked: between the
\* store's write and the invocation a rollbackTransaction call can replace
\* a record whose command is 'rollback' with the marker (C20).
NotifierInvoked(i) ==
    calls[i].pushed = "no" /\ calls'[i].pushed # "no"

PutConfirmed(i) ==
    calls[i].pc = "put" /\ calls[i].reply = NoReply /\ calls'[i].reply = "ok"

FailurePathNeverNotifies ==
    \A i \in 1..Len(calls) :
        calls[i].rollback # "none" => calls[i].pushed = "no"

C2_NotifyOnlyAfterPersisted ==
    /\ [][\A i \in 1..Len(calls) :
             /\ NotifierInvoked(i) =>
                   /\ calls[i].pc = "put" /\ calls[i].reply = "ok"
                   /\ StatusAfter(i) = "persisted"
             /\ PutConfirmed(i) =>
                   /\ SlotOf(i) \notin DOMAIN transactions
                   /\ SlotOf(i) \in DOMAIN transactions'
                   /\ transactions'[SlotOf(i)] = calls[i].transaction]_vars
    /\ []FailurePathNeverNotifies

\* one commit was notified after a rollbackTransaction call had replaced
\* its stored record with the marker, another took the failure path
C2_Witness ==
    \E i, j \in 1..Len(calls) :
        /\ calls[i].pushed = "ok" /\ StatusOf(i) = "persisted"
        /\ calls[i].transaction.command = "rollback"
        /\ calls[i].transaction # transactionWithRollbackCommand
        /\ transactions[SlotOf(i)] = transactionWithRollbackCommand
        /\ calls[j].rollback # "none" /\ calls[j].pc = "done"
        /\ calls[j].pushed = "no"

\* C3: a Log Store slot never becomes empty, and its content changes only
\* from a record whose command is rollback to the rollback marker; a slot
\* holding a genuine (non-rollback) transaction keeps it in every step.
C3_GenuineSlotNeverReplaced ==
    [][\A slot \in DOMAIN transactions :
          /\ slot \in DOMAIN transactions'
          /\ \/ transactions'[slot] = transactions[slot]
             \/ /\ transactions[slot].command = "rollback"
                /\ transactions'[slot] = transactionWithRollbackCommand]_vars

\* a rollback write was refused on a slot holding the genuine transaction
C3_Witness ==
    \E i \in 1..Len(calls) :
        /\ calls[i].rollback = "reconciled"
        /\ calls[i].transaction.command # "rollback"
        /\ transactions[SlotOf(i)] = calls[i].transaction

\* C4: in every step the stored bundle-seq-no of a database, once set, stays
\* set and either keeps its value or moves to a strictly greater one.
C4_BundleSeqNoMonotonic ==
    [][\A d \in DOMAIN databases :
          Len(Pointer(d)) > 0 =>
              /\ d \in DOMAIN databases'
              /\ Len(databases'[d].bundleSeqNo) > 0
              /\ \/ databases'[d].bundleSeqNo = Pointer(d)
                 \/ numberLess(Pointer(d)[1], databases'[d].bundleSeqNo[1])]_vars

\* a bundler that read the pointer before another advanced it past its own
\* seqNo has uploaded and had its update refused
C4_Witness ==
    \E i \in 1..Len(bundleCalls) :
        LET b == bundleCalls[i]
        IN  /\ b.pc = "done" /\ b.uploaded /\ ~b.updated
            /\ Len(b.pointerAtCall) = 0
            /\ Len(b.database) = 1 /\ Len(b.database[1].bundleSeqNo) = 0
            /\ Len(Pointer(b.dbId)) > 0 /\ numberLess(b.seqNo, Pointer(b.dbId)[1])

\* C5: when the marker write of a failed commit's rollback succeeds, the
\* slot is marked rolled-back; and after that the slot is marked
\* persisted only by a reconciliation: a rollback of that slot whose put
\* was refused by the guard.
Reconciliation(slot) ==
    \/ \E j \in 1..Len(calls) :
          /\ SlotOf(j) = slot /\ calls[j].rollbackReply = "conditional"
          /\ RollbackReturn(j)
    \/ \E j \in 1..Len(rollbackCalls) :
          /\ <<rollbackCalls[j].dbId, rollbackCalls[j].sequenceNo>> = slot
          /\ rollbackCalls[j].reply = "conditional"
          /\ RollbackCallReturn(j)

C5_RolledBackNotPersisted ==
    [][\A i \in 1..Len(calls) :
          /\ (calls[i].rollback = "put" /\ calls'[i].rollback = "rolled-back")
                => StatusAfter(i) = "rolled-back"
          /\ (/\ calls[i].rollback = "rolled-back"
              /\ StatusOf(i) # "persisted" /\ StatusAfter(i) = "persisted")
                => Reconciliation(SlotOf(i))]_vars

\* a failed commit whose marker is in the Log Store, slot rolled-back
C5_Witness ==
    \E i \in 1..Len(calls) :
        /\ calls[i].rollback = "rolled-back"
        /\ transactions[SlotOf(i)] = transactionWithRollbackCommand
        /\ StatusOf(i) = "rolled-back"

\* C6: in every step each slot's status is unchanged or makes one of the
\* transitions assigned -> persisted, assigned -> rolled-back,
\* rolled-back -> persisted; a new slot starts assigned.  The code breaks
\* it: a persisted record whose command is 'rollback' passes the guard of
\* the rollback put (line 148), and the slot is then marked rolled-back.
LegalTransitions ==
    { <<"assigned", "persisted">>, <<"assigned", "rolled-back">>,
      <<"rolled-back", "persisted">> }

C6_StatusTransitionsLegal ==
    [][\A d \in DOMAIN txLog :
          /\ d \in DOMAIN txLog' /\ Len(txLog'[d]) >= Len(txLog[d])
          /\ \A s \in 1..Len(txLog'[d]) :
                IF s <= Len(txLog[d])
                THEN \/ txLog'[d][s] = txLog[d][s]
                     \/ <<txLog[d][s], txLog'[d][s]>> \in LegalTransitions
                ELSE txLog'[d][s] = "assigned"]_vars

\* C7 as stated: a bundleTransactionLog call made when the stored
\* bundle-seq-no is N, with a seqNo M <= N, uploads nothing, updates nothing
\* and, when it returns, returns bad-request.  It fails when the lookup of
\* the database record (lines 274-275) itself fails: the catch block
\* answers internal-error.
StaleAtCall(b) ==
    Len(b.pointerAtCall) > 0 /\ ~numberLess(b.pointerAtCall[1], b.seqNo)

C7_StaleBundleRejected ==
    \A i \in 1..Len(bundleCalls) :
        StaleAtCall(bundleCalls[i]) =>
            /\ ~bundleCalls[i].uploaded /\ ~bundleCalls[i].updated
            /\ bundleCalls[i].pc \in {"find", "done"}
            /\ bundleCalls[i].pc = "done" => bundleCalls[i].code = BadRequest

\* C7 amended: such a call uploads nothing and updates nothing; it returns
\* bad-request when the lookup of the database record answers, and
\* internal-error when the lookup fails.
StaleRefused ==
    \A i \in 1..Len(bundleCalls) :
        StaleAtCall(bundleCalls[i]) =>
            /\ ~bundleCalls[i].uploaded /\ ~bundleCalls[i].updated
            /\ bundleCalls[i].pc \in {"find", "done"}
            /\ bundleCalls[i].pc = "done" =>
                  bundleCalls[i].code \in {BadRequest, InternalError}

InternalErrorOnlyFromLookup ==
    \A i \in 1..Len(bundleCalls) :
        (/\ StaleAtCall(bundleCalls[i])
         /\ bundleCalls[i].pc = "find"
         /\ bundleCalls'[i].code = InternalError) => bundleCalls[i].reply = "error"

C7_StaleBundleRefused ==
    []StaleRefused /\ [][InternalErrorOnlyFromLookup]_vars

\* a call with M = N was rejected after an earlier bundle at N succeeded
C7_Witness ==
    \E i, j \in 1..Len(bundleCalls) :
        /\ bundleCalls[i].code = Success
        /\ bundleCalls[j].pointerAtCall = <<bundleCalls[i].seqNo>>
        /\ bundleCalls[j].seqNo = bundleCalls[i].seqNo
        /\ bundleCalls[j].code = BadRequest

\* C8: after a successful bundleTransactionLog(D, N, B), getBundle(D, N)
\* returns exactly B, whatever other bundle calls ran.
C8_GetBundleReturnsBundle ==
    \A i \in 1..Len(bundleCalls) :
        bundleCalls[i].code = Success =>
            LET key == getS3DbStateKey(bundleCalls[i].dbId, bundleCalls[i].seqNo)
                r == getBundleResponse(getObject(s3, key, "ok"))
            IN  r.code = Success /\ r.body = bundleCalls[i].bundle

\* C9: once the Snapshot Store holds a blob at a key, no step changes the
\* bytes at that key.
C9_BundleImmutable ==
    [][\A key \in DOMAIN s3 : key \in DOMAIN s3' /\ s3'[key] = s3[key]]_vars

\* C10 as stated: a createDatabase call made with a dbId that exists is
\* answered conflict, and the Database and UserDatabase records are
\* paired.  It fails when another argument of the call is missing (the
\* answer is bad-request, lines 12-15) and when the transactWrite fails for
\* another reason than its guards (the answer is internal-error, line 64).
RegistryPaired ==
    /\ \A d \in DOMAIN databases :
          \E a \in DOMAIN userDatabases :
              userDatabases[a].dbId = d /\ a[1] = databases[d].owner
    /\ \A a \in DOMAIN userDatabases :
          /\ userDatabases[a].dbId \in DOMAIN databases
          /\ databases[userDatabases[a].dbId].owner = a[1]

ExistingIdAnswer == lastDone.op = "createDatabase" /\ lastDone.dbExisted

C10_ExistingIdConflicts ==
    /\ RegistryPaired
    /\ ExistingIdAnswer => lastDone.code = Conflict

\* C10 amended: a createDatabase call made with a dbId that exists is never
\* answered success: it is answered bad-request when it is refused before
\* the store is called, conflict when the store refused the guarded write,
\* and internal-error when the transactWrite call failed.  The store
\* refuses the write of a call whose dbId or alias exists and changes
\* nothing; no step changes or removes an existing Database record (its
\* bundle pointer aside) or UserDatabase record; and every Database record
\* has the alias of its owner, every alias its Database record.
ExistingIdRefused ==
    ExistingIdAnswer =>
        /\ lastDone.code \in {BadRequest, Conflict, InternalError}
        /\ lastDone.code = BadRequest <=> lastDone.reply = NoReply
        /\ lastDone.code = Conflict <=> lastDone.reply = "conditional"
        /\ lastDone.code = InternalError <=> lastDone.reply = "error"

GuardedWriteRefused ==
    \A i \in 1..Len(createCalls) :
        (/\ Len(createCalls') = Len(createCalls)
         /\ createCalls[i].reply = NoReply /\ createCalls'[i].reply # NoReply
         /\ \/ createCalls[i].dbId \in DOMAIN databases
            \/ <<createCalls[i].userId, createCalls[i].dbNameHash>> \in DOMAIN userDatabases)
            => /\ createCalls'[i].reply \in {"conditional", "error"}
               /\ databases' = databases
               /\ userDatabases' = userDatabases

RegistryRecordsKept ==
    /\ \A d \in DOMAIN databases :
          /\ d \in DOMAIN databases'
          /\ databases'[d].owner = databases[d].owner
          /\ databases'[d].name = databases[d].name
    /\ \A a \in DOMAIN userDatabases :
          a \in DOMAIN userDatabases' /\ userDatabases'[a] = userDatabases[a]

C10_ExistingIdRefusedRecordsKept ==
    /\ [](RegistryPaired /\ ExistingIdRefused)
    /\ [][RegistryRecordsKept /\ GuardedWriteRefused]_vars

\* a second user asked for an existing dbId and was answered conflict (only
\* the Database guard tripped), while the transactWrite of another call for
\* that dbId has failed and its internal-error answer is on its way
C10_Witness ==
    /\ lastDone.op = "createDatabase" /\ lastDone.code = Conflict
    /\ lastDone.dbExisted /\ ~lastDone.aliasExisted
    /\ \E i \in 1..Len(createCalls) :
          /\ createCalls[i].dbExisted /\ createCalls[i].reply = "error"
          /\ createCalls[i].dbId \in DOMAIN databases

\* C11: a batch call with n >= 1 valid operations takes one sequence number
\* and appends one call; its transaction has command Batch and holds the n
\* sub-operations in the submitted order; when it returns success its slot
\* holds that one transaction and the response carries its number; every
\* Log Store entry is the slot of one call; and a successful single command
\* followed by a successful batch on a new database return 1 and then 2.
BatchBuilt(userId, databaseId, operations) ==
    (Batch(userId, databaseId, operations) /\ calls' # calls) =>
        LET c == calls'[Len(calls')]
            ops == c.transaction.operations
        IN  /\ Len(calls') = Len(calls) + 1
            /\ c.op = "batch" /\ c.transaction.command = "Batch"
            /\ Len(txLog'[databaseId]) = Len(txLog[databaseId]) + 1
            /\ c.sequenceNo = Len(txLog'[databaseId])
            /\ Len(ops) = Len(operations) /\ Len(ops) >= 1
            /\ \A k \in 1..Len(ops) :
                  /\ ops[k].key = operations[k].itemKey
                  /\ ops[k].record = operations[k].encryptedItem
                  /\ ops[k].command = operations[k].command

BatchStored ==
    /\ \A i \in 1..Len(calls) :
          (calls[i].op = "batch" /\ calls[i].response.code = Success) =>
              /\ SlotOf(i) \in DOMAIN transactions
              /\ transactions[SlotOf(i)] = calls[i].transaction
              /\ calls[i].response.sequenceNo = calls[i].sequenceNo
    /\ \A slot \in DOMAIN transactions : \E i \in 1..Len(calls) : SlotOf(i) = slot
    /\ Cardinality(DOMAIN transactions) <= Len(calls)
    /\ (/\ Len(calls) >= 2
        /\ calls[1].dbId = calls[2].dbId
        /\ calls[1].op = "doCommand" /\ calls[2].op = "batch"
        /\ calls[1].response.code = Success /\ calls[2].response.code = Success)
       => calls[1].response.sequenceNo = 1 /\ calls[2].response.sequenceNo = 2

C11_BatchIsOneTransaction ==
    /\ []BatchStored
    /\ [][\A a \in BatchInputs : BatchBuilt(a[1], a[2], a[3])]_vars

\* the scenario: a single command, then a batch of two, both successful
C11_Witness ==
    /\ Len(calls) >= 2
    /\ calls[1].op = "doCommand" /\ calls[1].response = Response(Success, 1)
    /\ calls[2].op = "batch" /\ calls[2].response = Response(Success, 2)
    /\ calls[2].dbId = calls[1].dbId
    /\ Len(transactions[SlotOf(2)].operations) = 2
    /\ transactions[SlotOf(2)].operations[1].record = "r1"
    /\ transactions[SlotOf(2)].operations[2].record = "r2"

\* C12: whenever the durable write of a call succeeded (its put returned
\* and the Notifier call was reached), the call returns success with the
\* assigned sequence number, whether or not connections.push failed.
C12_PushFailureNotCommitFailure ==
    \A i \in 1..Len(calls) :
        calls[i].pushed # "no" =>
            calls[i].response = Response(Success, calls[i].sequenceNo)

\* C13: a slot that is marked persisted in the Sequencer, by the commit
\* path or by rollback reconciliation, is eventually followed by the
\* Notifier call for its transaction, made with (databaseId, userId of the
\* committer).
C13_PersistedEventuallyNotified ==
    \A i \in 1..MaxCalls :
        (i <= Len(calls) /\ StatusOf(i) = "persisted")
            ~> (i <= Len(calls) /\ calls[i].pushedTo = <<calls[i].dbId, calls[i].userId>>)

\* C14: a call whose durable write failed has its internal-error response
\* as soon as its rollback is started, while the rollback's put is still
\* outstanding; and once a call has answered, no later step, in particular
\* no outcome of its rollback, changes the response.
RollbackStartedAfterAnswer ==
    \A i \in 1..Len(calls) :
        calls[i].rollback # "none" =>
            calls[i].pc = "done" /\ calls[i].response = Response(InternalError, 0)

ResponseKept ==
    \A i \in 1..Len(calls) :
        calls[i].pc = "done" =>
            /\ i <= Len(calls') /\ calls'[i].pc = "done"
            /\ calls'[i].response = calls[i].response

C14_RollbackOutcomeNotSurfaced ==
    []RollbackStartedAfterAnswer /\ [][ResponseKept]_vars

\* one call answered while its rollback's put has not reached the store,
\* another whose rollback found the slot persisted, both answered
\* internal-error
C14_Witness ==
    \E i, j \in 1..Len(calls) :
        /\ calls[i].rollback = "put" /\ calls[i].rollbackReply = NoReply
        /\ calls[i].response.code = InternalError
        /\ calls[j].rollback = "reconciled" /\ calls[j].response.code = InternalError
        /\ StatusOf(j) = "persisted"

\* C15: a bundleTransactionLog call whose seqNo is negative writes nothing
\* to the Snapshot Store, never becomes the database's bundle-seq-no and
\* is not answered success.  (A seqNo that converts to NaN is answered
\* bad-request before a call is recorded.)
C15_NegativeSeqNoRejected ==
    \A i \in 1..Len(bundleCalls) :
        numberLess(bundleCalls[i].seqNo, Num(0)) =>
            /\ ~bundleCalls[i].uploaded /\ ~bundleCalls[i].updated
            /\ bundleCalls[i].code # Success
            /\ \A d \in DOMAIN databases : Pointer(d) # <<bundleCalls[i].seqNo>>

\* C16: when every issued store call returns, every commit call that was
\* assigned a sequence number is eventually answered success or
\* internal-error, and a rollback that was started eventually ends in one
\* of its three outcomes: marker written (slot marked rolled-back), slot
\* reconciled as persisted, or failure (slot status left as it was).  An
\* ended rollback is never started again.
RollbackOutcomes == {"rolled-back", "reconciled", "failed"}

RollbackOutcomeMatchesSlot ==
    \A i \in 1..Len(calls) :
        calls[i].rollback = "put" =>
            /\ calls'[i].rollback = "rolled-back" => StatusAfter(i) = "rolled-back"
            /\ calls'[i].rollback = "reconciled" => StatusAfter(i) = "persisted"
            /\ calls'[i].rollback = "failed" => StatusAfter(i) = StatusOf(i)

RollbackEndsOnce ==
    \A i \in 1..Len(calls) :
        calls[i].rollback \in RollbackOutcomes =>
            /\ calls'[i].rollback = calls[i].rollback
            /\ calls'[i].rollbackReply = NoReply

C16_CommitAndRollbackTerminate ==
    /\ \A i \in 1..MaxCalls :
          /\ (i <= Len(calls))
                ~> (/\ i <= Len(calls) /\ calls[i].pc = "done"
                    /\ calls[i].response.code \in {Success, InternalError})
          /\ (i <= Len(calls) /\ calls[i].rollback = "put")
                ~> (i <= Len(calls) /\ calls[i].rollback \in RollbackOutcomes)
    /\ [][RollbackOutcomeMatchesSlot /\ RollbackEndsOnce]_vars

\* one rollback ended in failure with its slot left assigned, another
\* ended with the marker written
C16_Witness ==
    \E i, j \in 1..Len(calls) :
        /\ calls[i].rollback = "failed" /\ StatusOf(i) = "assigned"
        /\ calls[i].response.code = InternalError
        /\ calls[j].rollback = "rolled-back" /\ StatusOf(j) = "rolled-back"

\* C17: per database the k-th commit call to start holds sequence number
\* k, in every state: a call is given its number in the step in which it
\* starts, the number is one more than the count of the calls made on the
\* database before it, and it never changes afterwards, whatever the order
\* in which the store handles the puts and the replies arrive.
StartRank(i) == Cardinality({j \in CallsOn(calls[i].dbId) : j <= i})

NumberedAtStart ==
    /\ Len(calls') >= Len(calls)
    /\ \A i \in 1..Len(calls) :
          calls'[i].dbId = calls[i].dbId /\ calls'[i].sequenceNo = calls[i].sequenceNo
    /\ \A i \in (Len(calls) + 1)..Len(calls') :
          /\ calls'[i].sequenceNo = Cardinality(CallsOn(calls'[i].dbId)) + 1
          /\ Len(txLog'[calls'[i].dbId]) = calls'[i].sequenceNo
          /\ txLog'[calls'[i].dbId][calls'[i].sequenceNo] = "assigned"

FailedAfterUpload(b) == b.pc = "done" /\ b.uploaded /\ b.code # Success

BundleKey(b) == getS3DbStateKey(b.dbId, b.seqNo)

C18_FailedBundleLeavesPointer ==
    \A i \in 1..Len(bundleCalls) :
        FailedAfterUpload(bundleCalls[i]) =>
            /\ bundleCalls[i].code = InternalError
            /\ ~bundleCalls[i].informed
            /\ BundleKey(bundleCalls[i]) \in DOMAIN s3
            /\ ~bundleCalls[i].updated

\* C18 amended: such a call is answered internal-error, has not informed
\* the Sequencer and its snapshot stays in the Snapshot Store; an update
\* the store rejected (the guard was false) or failed without applying
\* leaves the bundle-seq-no as it was, and the step that handles a failure
\* reply changes neither the bundle-seq-no, the Snapshot Store nor the
\* Sequencer's bundle number.
OrphanLeft ==
    \A i \in 1..Len(bundleCalls) :
        FailedAfterUpload(bundleCalls[i]) =>
            /\ bundleCalls[i].code = InternalError
            /\ ~bundleCalls[i].informed
            /\ BundleKey(bundleCalls[i]) \in DOMAIN s3

RejectedUpdateNotApplied ==
    \A i \in 1..Len(bundleCalls) :
        (bundleCalls[i].pc = "update" /\ bundleCalls[i].reply = "conditional")
            => ~bundleCalls[i].updated

UnappliedUpdateChangesNothing ==
    \A i \in 1..Len(bundleCalls) :
        (/\ bundleCalls[i].pc = "update" /\ bundleCalls[i].reply = NoReply
         /\ bundleCalls'[i].reply # NoReply /\ ~bundleCalls'[i].updated)
            => databases' = databases

FailureReplyChangesNothing ==
    \A i \in 1..Len(bundleCalls) :
        (/\ bundleCalls[i].pc \in {"upload", "update"}
         /\ FailedAfterUpload(bundleCalls'[i]))
            => /\ databases' = databases
               /\ s3' = s3
               /\ mcBundleSeqNo' = mcBundleSeqNo

C18_FailedBundleLeavesOrphan ==
    /\ [](OrphanLeft /\ RejectedUpdateNotApplied)
    /\ [][UnappliedUpdateChangesNothing /\ FailureReplyChangesNothing]_vars
    /\ [][DOMAIN s3 \subseteq DOMAIN s3']_vars

\* a call lost the race: a concurrent bundler advanced the pointer to an
\* equal or greater value after this call had uploaded its snapshot
C18_Witness ==
    \E i, j \in 1..Len(bundleCalls) :
        /\ i # j
        /\ FailedAfterUpload(bundleCalls[i]) /\ ~bundleCalls[i].updated
        /\ bundleCalls[i].code = InternalError
        /\ bundleCalls[j].updated /\ bundleCalls[j].dbId = bundleCalls[i].dbId
        /\ ~numberLess(bundleCalls[j].seqNo, bundleCalls[i].seqNo)
        /\ Len(bundleCalls[i].pointerAtCall) = 0
        /\ BundleKey(bundleCalls[i]) \in DOMAIN s3

\* C19: in every state, a database whose bundle-seq-no is N has a blob in
\* the Snapshot Store at the key of (database id, N), whatever the
\* interleaving of the bundlers.
C19_PointerHasSnapshot ==
    \A d \in DOMAIN databases :
        Len(Pointer(d)) > 0 => getS3DbStateKey(d, Pointer(d)[1]) \in DOMAIN s3

\* two bundlers ran; the pointer stands at 2 and both snapshots exist
C19_Witness ==
    /\ "d1" \in DOMAIN databases /\ Pointer("d1") = <<Num(2)>>
    /\ getS3DbStateKey("d1", Num(2)) \in DOMAIN s3
    /\ getS3DbStateKey("d1", Num(1)) \in DOMAIN s3
    /\ \E i \in 1..Len(bundleCalls) :
          FailedAfterUpload(bundleCalls[i]) /\ ~bundleCalls[i].updated

\* C20: in every state, a call that was answered success with sequence
\* number s for database D has the slot (D, s) of the Log Store holding
\* the transaction it submitted; as the answer of a call never changes,
\* this holds in every later state too.  The code breaks it: a stored
\* record whose command is 'rollback' passes the guard of the rollback put
\* (line 148) and is replaced by the marker.
C20_SuccessMeansStored ==
    \A i \in 1..Len(calls) :
        calls[i].response.code = Success =>
            LET slot == <<calls[i].dbId, calls[i].response.sequenceNo>>
            IN  /\ calls[i].response.sequenceNo = calls[i].sequenceNo
                /\ slot \in DOMAIN transactions
                /\ transactions[slot] = calls[i].transaction
                /\ \A j \in 1..Len(calls) : j # i => SlotOf(j) # slot

====
